---- MODULE Spec2Model ----
(***************************************************************************)
(* Ticket classification and routing core of atlan-copilot-task:           *)
(* SentimentAgent (keyword scorer, priority engine, normaliser, classifier,*)
(* response cache) and SimpleTavilySystem (routing policy).                *)
(***************************************************************************)
EXTENDS Integers, Sequences, FiniteSets, TLC

VARIABLES
  op,                  \* the operation in progress, "none" when idle
  pc,                  \* position of the running operation
  subject,             \* subject of the ticket being classified
  body,                \* body of the ticket being classified
  topic_response,      \* raw text returned by the topic call
  sentiment_response,  \* raw text returned by the sentiment call
  attempt,             \* loop variable of the retry loop of _get_llm_response
  cache,               \* SentimentAgent._cache: <<key, response>> in insertion order
  tickets,             \* argument of classify_tickets_batch
  results,             \* results list of classify_tickets_batch
  log,                 \* history: outcome of every classify_ticket call of the operation
  analysis,            \* TicketAnalysis held by process_ticket
  callers,             \* frames of the calls in progress, by caller
  system,              \* the SimpleTavilySystem instance of main.py
  ret                  \* value returned (or error raised) by the last completed call

ticketVars == <<subject, body>>
callVars   == <<topic_response, sentiment_response, attempt>>
batchVars  == <<tickets, results, log>>

vars == <<op, pc, subject, body, topic_response, sentiment_response, attempt,
          cache, tickets, results, log, analysis, callers, system, ret>>

----------------------------------------------------------------------------
(* Strings: str.lower(), str.capitalize(), the `in` substring test.        *)

UpperLetters == "ABCDEFGHIJKLMNOPQRSTUVWXYZ"
LowerLetters == "abcdefghijklmnopqrstuvwxyz"

\* the upper-case letter -> lower-case letter map, and its inverse
LowerOf == [c \in {SubSeq(UpperLetters, i, i) : i \in 1..26} |->
              LET i == CHOOSE k \in 1..26 : SubSeq(UpperLetters, k, k) = c
              IN SubSeq(LowerLetters, i, i)]

UpperOf == [c \in {SubSeq(LowerLetters, i, i) : i \in 1..26} |->
              LET i == CHOOSE k \in 1..26 : SubSeq(LowerLetters, k, k) = c
              IN SubSeq(UpperLetters, i, i)]

LowerChar(c) == IF c \in DOMAIN LowerOf THEN LowerOf[c] ELSE c

UpperChar(c) == IF c \in DOMAIN UpperOf THEN UpperOf[c] ELSE c

\* variant that leaves the letter case as it is
lower_identity(s) == s

\* str.lower(): every character mapped, the two halves of s in turn
RECURSIVE lower(_)
lower(s) ==
  IF Len(s) = 0 THEN ""
  ELSE IF Len(s) = 1 THEN LowerChar(s)
  ELSE LET h == Len(s) \div 2
       IN lower(SubSeq(s, 1, h)) \o lower(SubSeq(s, h + 1, Len(s)))

capitalize(s) ==
  IF Len(s) = 0 THEN ""
  ELSE UpperChar(SubSeq(s, 1, 1)) \o lower(SubSeq(s, 2, Len(s)))

\* variant that matches whole words only
Contains_word(s, sub) ==
  \E i \in 1..(Len(s) - Len(sub) + 1) :
    /\ SubSeq(s, i, i + Len(sub) - 1) = sub
    /\ i = 1 \/ SubSeq(s, i - 1, i - 1) = " "
    /\ i + Len(sub) - 1 = Len(s) \/ SubSeq(s, i + Len(sub), i + Len(sub)) = " "

\* Python `sub in s` for two strings
Contains(s, sub) ==
  \E i \in 1..(Len(s) - Len(sub) + 1) : SubSeq(s, i, i + Len(sub) - 1) = sub

Max(a, b) == IF a >= b THEN a ELSE b
Min(a, b) == IF a <= b THEN a ELSE b
Abs(a) == IF a < 0 THEN -a ELSE a

----------------------------------------------------------------------------
(* Enumerations.                                                           *)

TopicTag ==
  {"How-to", "Product", "Connector", "Lineage", "API/SDK", "SSO", "Glossary",
   "Best practices", "Sensitive data", "Other"}

Sentiment == {"Frustrated", "Curious", "Angry", "Neutral", "Confused"}

P0 == "P0 (High)"
P1 == "P1 (Medium)"
P2 == "P2 (Low)"
Priority == {P0, P1, P2}

----------------------------------------------------------------------------
(* Keyword tables of SentimentAgent.__init__.                              *)

\* urgency_indicators (lines 98-113): phrase -> score, in dict insertion order
urgency_indicators ==
  <<
    <<"urgent", 3>>, <<"critical failure", 3>>, <<"emergency", 3>>, <<"asap", 3>>,
    <<"immediately", 3>>, <<"blocked", 3>>, <<"deadline approaching", 3>>, <<"down", 3>>,
    <<"broken", 3>>, <<"failed", 3>>, <<"not working", 3>>, <<"crash", 3>>,
    <<"unavailable", 3>>, <<"important", 2>>, <<"priority", 2>>, <<"soon", 2>>,
    <<"quickly", 2>>, <<"fast", 2>>, <<"issue", 2>>, <<"problem", 2>>, <<"error", 2>>,
    <<"bug", 2>>, <<"help", 1>>, <<"assistance", 1>>, <<"support", 1>>,
    <<"question", 1>>, <<"wondering", 0>>, <<"curious", 0>>, <<"learning", 0>>,
    <<"explore", 0>>, <<"understand", 0>>
  >>

\* business_impact_indicators (lines 116-130): phrase -> score, in dict insertion order
business_impact_indicators ==
  <<
    <<"entire organization", 3>>, <<"all users", 3>>, <<"everyone", 3>>,
    <<"company-wide", 3>>, <<"organization", 3>>, <<"enterprise", 3>>,
    <<"all teams", 3>>, <<"global", 3>>, <<"team", 2>>, <<"department", 2>>,
    <<"bi team", 2>>, <<"engineering", 2>>, <<"data team", 2>>, <<"analytics team", 2>>,
    <<"multiple users", 2>>, <<"several people", 2>>, <<"few users", 1>>,
    <<"small group", 1>>, <<"couple of people", 1>>, <<"some users", 1>>,
    <<"individual", 0>>, <<"personal", 0>>, <<"just me", 0>>, <<"myself", 0>>,
    <<"single user", 0>>
  >>

\* severity_indicators (lines 133-151): phrase -> score, in dict insertion order
severity_indicators ==
  <<
    <<"production", 3>>, <<"live", 3>>, <<"down", 3>>, <<"broken", 3>>, <<"failed", 3>>,
    <<"crash", 3>>, <<"not working", 3>>, <<"unavailable", 3>>, <<"outage", 3>>,
    <<"disruption", 3>>, <<"security", 2>>, <<"compliance", 2>>, <<"audit", 2>>,
    <<"pii", 2>>, <<"sensitive", 2>>, <<"rbac", 2>>, <<"dlp", 2>>, <<"sso", 2>>,
    <<"authentication", 2>>, <<"credentials", 2>>, <<"setup", 2>>,
    <<"configuration", 2>>, <<"config", 2>>, <<"install", 2>>, <<"deploy", 2>>,
    <<"integration", 2>>, <<"connector", 2>>, <<"api", 2>>, <<"permissions", 2>>,
    <<"how to", 1>>, <<"how-to", 1>>, <<"tutorial", 1>>, <<"guide", 1>>,
    <<"feature request", 1>>, <<"enhancement", 1>>, <<"improvement", 1>>,
    <<"suggestion", 1>>, <<"question", 1>>, <<"info", 0>>, <<"information", 0>>,
    <<"curious", 0>>, <<"wondering", 0>>, <<"learning", 0>>, <<"explore", 0>>,
    <<"understand", 0>>, <<"glossary", 0>>, <<"definition", 0>>
  >>

\* compliance_security_indicators (lines 154-169): phrase -> score, in dict insertion order
compliance_security_indicators ==
  <<
    <<"audit", 3>>, <<"compliance", 3>>, <<"regulatory", 3>>, <<"sox", 3>>,
    <<"gdpr", 3>>, <<"hipaa", 3>>, <<"pii", 3>>, <<"sensitive data", 3>>,
    <<"confidential", 3>>, <<"breach", 3>>, <<"leak", 3>>, <<"exposed", 3>>,
    <<"security breach", 3>>, <<"data loss", 3>>, <<"rbac", 2>>, <<"dlp", 2>>,
    <<"sso", 2>>, <<"authentication", 2>>, <<"credentials", 2>>, <<"permissions", 2>>,
    <<"access control", 2>>, <<"authorization", 2>>, <<"privacy", 2>>, <<"security", 1>>,
    <<"best practices", 1>>, <<"governance", 1>>, <<"policy", 1>>, <<"general", 0>>,
    <<"info", 0>>, <<"question", 0>>, <<"how to", 0>>, <<"tutorial", 0>>
  >>

\* deadline_indicators (lines 172-183): phrase -> score, in dict insertion order
deadline_indicators ==
  <<
    <<"deadline", 2>>, <<"due", 2>>, <<"presentation", 2>>, <<"meeting", 2>>,
    <<"tomorrow", 2>>, <<"today", 2>>, <<"this week", 2>>, <<"next week", 2>>,
    <<"urgent", 2>>, <<"asap", 2>>, <<"immediately", 2>>, <<"critical", 2>>,
    <<"emergency", 2>>, <<"soon", 1>>, <<"quickly", 1>>, <<"priority", 1>>,
    <<"important", 1>>, <<"timely", 1>>, <<"whenever", 0>>, <<"no rush", 0>>,
    <<"curious", 0>>, <<"learning", 0>>, <<"explore", 0>>
  >>

\* sentiment_indicators (lines 186-198): phrase -> score, in dict insertion order
sentiment_indicators ==
  <<
    <<"angry", 2>>, <<"frustrated", 2>>, <<"annoyed", 2>>, <<"upset", 2>>,
    <<"irritated", 2>>, <<"mad", 2>>, <<"furious", 2>>, <<"exasperated", 2>>,
    <<"fed up", 2>>, <<"disappointed", 2>>, <<"concerned", 1>>, <<"worried", 1>>,
    <<"confused", 1>>, <<"stuck", 1>>, <<"struggling", 1>>, <<"difficult", 1>>,
    <<"challenging", 1>>, <<"problem", 1>>, <<"issue", 1>>, <<"neutral", 0>>,
    <<"curious", 0>>, <<"wondering", 0>>, <<"learning", 0>>, <<"explore", 0>>,
    <<"question", 0>>, <<"help", 0>>, <<"assistance", 0>>, <<"support", 0>>
  >>

priority_thresholds == (P0 :> 9) @@ (P1 :> 6) @@ (P2 :> 4)

----------------------------------------------------------------------------
(* IEEE-754 double arithmetic of the scoring formula.                      *)
(* A double x is kept as [t, d] with x = (t * 2^52 + d) / (10 * 2^52):     *)
(* t is the exact decimal value in tenths and d the representation error   *)
(* in units of 2^-52 / 10.  Every value of the formula is 0 or in [1, 32). *)

\* the float literals 1.7, 1.2, 1.3, 1.4, 1.1 of lines 301-306
W_urgency         == [t |-> 17, d |-> -2]
W_business_impact == [t |-> 12, d |-> -2]
W_severity        == [t |-> 13, d |-> 2]
W_compliance      == [t |-> 14, d |-> -4]
W_deadline        == [t |-> 13, d |-> 2]
W_sentiment       == [t |-> 11, d |-> 4]

\* 2^52 modulo m, for the moduli 10 * 2^e that occur
Pow52Mod(m) ==
  CASE m = 10 -> 6 [] m = 20 -> 16 [] m = 40 -> 16 [] m = 80 -> 16
    [] m = 160 -> 96 [] m = 320 -> 256

\* x >= 2^e for x = [t, d]
AtLeastPow2(t, d, e) ==
  LET p == 10 * (2 ^ e) IN t > p \/ (t = p /\ d >= 0)

\* spacing of the doubles around x, in units of 2^-52 / 10
Ulp(t, d) ==
  LET e == CHOOSE k \in 0..4 :
             AtLeastPow2(t, d, k) /\ (k = 4 \/ ~AtLeastPow2(t, d, k + 1))
  IN 10 * (2 ^ e)

\* round the exact value [t, d] to the nearest double, ties to even
FRound(t, d) ==
  IF t = 0 /\ d = 0 THEN [t |-> 0, d |-> 0]
  ELSE LET m  == Ulp(t, d)
           r  == (t * Pow52Mod(m) + d) % m
           r2 == (t * Pow52Mod(2 * m) + d) % (2 * m)
       IN IF 2 * r < m THEN [t |-> t, d |-> d - r]
          ELSE IF 2 * r > m THEN [t |-> t, d |-> d + (m - r)]
          ELSE IF r2 = r THEN [t |-> t, d |-> d - r]
          ELSE [t |-> t, d |-> d + (m - r)]

\* int * float
FMul(k, w) == FRound(k * w.t, k * w.d)

\* float + float
FAdd(a, b) == FRound(a.t + b.t, a.d + b.d)

\* Python round(x) of a float x: an int, nearest, exact ties to even
PyRound(x) ==
  LET q   == x.t \div 10
      rem == x.t % 10
  IN IF rem < 5 THEN q
     ELSE IF rem > 5 THEN q + 1
     ELSE IF x.d < 0 THEN q
     ELSE IF x.d > 0 THEN q + 1
     ELSE IF q % 2 = 0 THEN q ELSE q + 1

----------------------------------------------------------------------------
(* Keyword Scorer and Priority Engine.                                     *)

\* variant of the loop that adds up the scores of the matching phrases
RECURSIVE MaxKeywordLoop_sum(_, _, _, _)
MaxKeywordLoop_sum(text, keyword_dict, i, max_score) ==
  IF i > Len(keyword_dict) THEN max_score
  ELSE MaxKeywordLoop_sum(text, keyword_dict, i + 1,
         IF Contains(text, keyword_dict[i][1])
         THEN max_score + keyword_dict[i][2]
         ELSE max_score)

\* variant in which the last phrase that matches decides the score
RECURSIVE MaxKeywordLoop_last(_, _, _, _)
MaxKeywordLoop_last(text, keyword_dict, i, max_score) ==
  IF i > Len(keyword_dict) THEN max_score
  ELSE MaxKeywordLoop_last(text, keyword_dict, i + 1,
         IF Contains(text, keyword_dict[i][1])
         THEN keyword_dict[i][2]
         ELSE max_score)

\* the for loop of _get_max_keyword_score over keyword_dict.items()
RECURSIVE MaxKeywordLoop(_, _, _, _)
MaxKeywordLoop(text, keyword_dict, i, max_score) ==
  IF i > Len(keyword_dict) THEN max_score
  ELSE MaxKeywordLoop(text, keyword_dict, i + 1,
         IF Contains(text, keyword_dict[i][1])
         THEN Max(max_score, keyword_dict[i][2])
         ELSE max_score)

_get_max_keyword_score(text, keyword_dict, default) ==
  MaxKeywordLoop(text, keyword_dict, 1, default)

\* variant with strict comparisons against the thresholds
DeterminePriority_strict(final_score, thresholds) ==
  IF final_score > thresholds[P0] THEN P0
  ELSE IF final_score > thresholds[P1] THEN P1
  ELSE P2

\* the if / elif / else of lines 313-318
DeterminePriority(final_score, thresholds) ==
  IF final_score >= thresholds[P0] THEN P0
  ELSE IF final_score >= thresholds[P1] THEN P1
  ELSE P2

\* variant with the urgency weight 1.5 of the comment on line 299
FinalScore_w15(u, b, s, c, d, t) ==
  PyRound(FAdd(FAdd(FAdd(FAdd(FAdd(FMul(u, [t |-> 15, d |-> 0]),
                                   FMul(b, W_business_impact)),
                              FMul(s, W_severity)),
                         FMul(c, W_compliance)),
                    FMul(d, W_deadline)),
               FMul(t, W_sentiment)))

\* lines 300-310: the weighted sum, added left to right, then round()
FinalScore(u, b, s, c, d, t) ==
  PyRound(FAdd(FAdd(FAdd(FAdd(FAdd(FMul(u, W_urgency),
                                   FMul(b, W_business_impact)),
                              FMul(s, W_severity)),
                         FMul(c, W_compliance)),
                    FMul(d, W_deadline)),
               FMul(t, W_sentiment)))

\* variant that raises the score of a ticket the capability calls Angry
_calculate_priority_score_angry(topic_tags, sentiment, subj, bod) ==
  LET text == lower(subj \o " " \o bod)
      urgency_score         == _get_max_keyword_score(text, urgency_indicators, 0)
      business_impact_score == _get_max_keyword_score(text, business_impact_indicators, 0)
      severity_score        == _get_max_keyword_score(text, severity_indicators, 0)
      compliance_score      == _get_max_keyword_score(text, compliance_security_indicators, 0)
      deadline_score        == _get_max_keyword_score(text, deadline_indicators, 0)
      sentiment_score       == _get_max_keyword_score(text, sentiment_indicators, 0)
      final_score == FinalScore(urgency_score, business_impact_score, severity_score,
                                compliance_score, deadline_score, sentiment_score)
                       + (IF sentiment = "Angry" THEN 9 ELSE 0)
      priority == DeterminePriority(final_score, priority_thresholds)
  IN [priority    |-> priority,
      final_score |-> final_score,
      reasoning   |-> "Priority: " \o priority \o " (Score: " \o ToString(final_score) \o ")",
      scores      |-> <<urgency_score, business_impact_score, severity_score,
                        compliance_score, deadline_score, sentiment_score>>]

\* lines 276-323; topic_tags and sentiment are parameters the body never reads
_calculate_priority_score(topic_tags, sentiment, subj, bod) ==
  LET text == lower(subj \o " " \o bod)
      urgency_score         == _get_max_keyword_score(text, urgency_indicators, 0)
      business_impact_score == _get_max_keyword_score(text, business_impact_indicators, 0)
      severity_score        == _get_max_keyword_score(text, severity_indicators, 0)
      compliance_score      == _get_max_keyword_score(text, compliance_security_indicators, 0)
      deadline_score        == _get_max_keyword_score(text, deadline_indicators, 0)
      sentiment_score       == _get_max_keyword_score(text, sentiment_indicators, 0)
      final_score == FinalScore(urgency_score, business_impact_score, severity_score,
                                compliance_score, deadline_score, sentiment_score)
      priority == DeterminePriority(final_score, priority_thresholds)
  IN [priority    |-> priority,
      final_score |-> final_score,
      reasoning   |-> "Priority: " \o priority \o " (Score: " \o ToString(final_score) \o ")",
      scores      |-> <<urgency_score, business_impact_score, severity_score,
                        compliance_score, deadline_score, sentiment_score>>]

----------------------------------------------------------------------------
(* JSON values and the Python operations the normaliser applies to them.   *)
(* A value carries its Python type: dict (a sequence of <<key, value>>     *)
(* items in insertion order), list, str, int or NoneType.                  *)

JDict(items) == [type |-> "dict", items |-> items]
JList(items) == [type |-> "list", items |-> items]
JStr(s)      == [type |-> "str", s |-> s]
JInt(n)      == [type |-> "int", n |-> n]
JNone        == [type |-> "NoneType"]

\* key in d, for a dict d
HasKey(d, key) == \E i \in 1..Len(d.items) : d.items[i][1] = key

\* d.get(key, default), for a dict d
DictGet(d, key, default) ==
  IF HasKey(d, key)
  THEN d.items[CHOOSE i \in 1..Len(d.items) : d.items[i][1] = key][2]
  ELSE default

\* `key in data` for a str key: the outcome is "True", "False" or "TypeError"
PyIn(key, data) ==
  CASE data.type = "dict" ->
         IF HasKey(data, key) THEN "True" ELSE "False"
    [] data.type = "list" ->
         IF \E i \in 1..Len(data.items) : data.items[i] = JStr(key)
         THEN "True" ELSE "False"
    [] data.type = "str" ->
         IF Contains(data.s, key) THEN "True" ELSE "False"
    [] OTHER -> "TypeError"

----------------------------------------------------------------------------
(* _parse_json_response.  Positions are 1-based and 0 means "not found"    *)
(* (Python: 0-based and -1).  The backtick of a markdown fence cannot be   *)
(* written in a string of this language: "~" stands for it throughout.     *)

Whitespace == {" ", "\t", "\n", "\r"}

Fence == "~~~"
FenceJson == "~~~json"

CharAt(s, i) == SubSeq(s, i, i)

\* s.find(sub, start): least position >= start where sub occurs
Find(s, sub, start) ==
  LET hits == { i \in start..(Len(s) - Len(sub) + 1) :
                  SubSeq(s, i, i + Len(sub) - 1) = sub }
  IN IF hits = {} THEN 0 ELSE CHOOSE i \in hits : \A j \in hits : i <= j

\* s.rfind(sub): greatest position where sub occurs
RFind(s, sub) ==
  LET hits == { i \in 1..(Len(s) - Len(sub) + 1) :
                  SubSeq(s, i, i + Len(sub) - 1) = sub }
  IN IF hits = {} THEN 0 ELSE CHOOSE i \in hits : \A j \in hits : i >= j

\* s.strip()
strip(s) ==
  LET keep == { i \in 1..Len(s) : CharAt(s, i) \notin Whitespace }
  IN IF keep = {} THEN ""
     ELSE SubSeq(s, CHOOSE i \in keep : \A j \in keep : i <= j,
                    CHOOSE i \in keep : \A j \in keep : i >= j)

\* re.sub(r'\s+', ' ', s)
RECURSIVE CollapseWhitespace(_)
CollapseWhitespace(s) ==
  IF Len(s) = 0 THEN ""
  ELSE IF CharAt(s, 1) \in Whitespace
       THEN IF Len(s) >= 2 /\ CharAt(s, 2) \in Whitespace
            THEN CollapseWhitespace(SubSeq(s, 2, Len(s)))
            ELSE " " \o CollapseWhitespace(SubSeq(s, 2, Len(s)))
       ELSE CharAt(s, 1) \o CollapseWhitespace(SubSeq(s, 2, Len(s)))

\* re.sub of whitespace next to the character c: the whitespace before c
\* (when before) and after c (when after) is removed.  It is applied after
\* CollapseWhitespace, when every whitespace run is one character long.
RECURSIVE StripAroundFrom(_, _, _, _, _)
StripAroundFrom(s, c, before, after, i) ==
  IF i > Len(s) THEN ""
  ELSE LET drop == /\ CharAt(s, i) \in Whitespace
                   /\ \/ before /\ i < Len(s) /\ CharAt(s, i + 1) = c
                      \/ after /\ i > 1 /\ CharAt(s, i - 1) = c
       IN (IF drop THEN "" ELSE CharAt(s, i))
            \o StripAroundFrom(s, c, before, after, i + 1)

StripAround(s, c, before, after) == StripAroundFrom(s, c, before, after, 1)

\* lines 532-541: the text between markdown fences, when both fences exist
StripFences(cleaned) ==
  IF Contains(cleaned, FenceJson)
  THEN LET start == Find(cleaned, FenceJson, 1) + 7
           end   == Find(cleaned, Fence, start)
       IN IF end # 0 THEN strip(SubSeq(cleaned, start, end - 1)) ELSE cleaned
  ELSE IF Contains(cleaned, Fence)
  THEN LET start == Find(cleaned, Fence, 1) + 3
           end   == Find(cleaned, Fence, start)
       IN IF end # 0 THEN strip(SubSeq(cleaned, start, end - 1)) ELSE cleaned
  ELSE cleaned

\* lines 544-547: from the first "{" to the last "}"
ExtractBraces(cleaned) ==
  LET start_brace == Find(cleaned, "{", 1)
      end_brace   == RFind(cleaned, "}")
  IN IF start_brace # 0 /\ end_brace # 0 /\ end_brace > start_brace
     THEN SubSeq(cleaned, start_brace, end_brace)
     ELSE cleaned

\* lines 552-561: the chain of re.sub calls
CleanWhitespace(cleaned) ==
  LET s0 == CollapseWhitespace(cleaned)
      s1 == StripAround(s0, "{", TRUE, TRUE)
      s2 == StripAround(s1, "}", TRUE, TRUE)
      s3 == StripAround(s2, "[", TRUE, TRUE)
      s4 == StripAround(s3, "]", TRUE, TRUE)
      s5 == StripAround(s4, ",", TRUE, TRUE)
      s6 == StripAround(s5, ":", TRUE, TRUE)
      s7 == StripAround(s6, "\"", FALSE, TRUE)
      s8 == StripAround(s7, "\"", TRUE, FALSE)
  IN s8

\* lines 529-561: the text handed to json.loads
CleanResponse(response) ==
  CleanWhitespace(ExtractBraces(StripFences(strip(response))))

\* json.loads (line 564) on the cleaned texts: the texts that are JSON
\* documents and the values they denote; every other text is not JSON
JsonDocuments ==
     ("{\"topics\":[\"Product\"]}" :>
       JDict(<<<<"topics", JList(<<JStr("Product")>>)>>>>))
  @@ ("{\"topics\":[\"Product\",\"Connector\"]}" :>
       JDict(<<<<"topics", JList(<<JStr("Product"), JStr("Connector")>>)>>>>))
  @@ ("{\"topics\":[\"Connector\",\"Connector\"]}" :>
       JDict(<<<<"topics", JList(<<JStr("Connector"), JStr("Connector")>>)>>>>))
  @@ ("{\"topics\":[\"Lineage\",\"API/SDK\",\"Best practices\"]}" :>
       JDict(<<<<"topics", JList(<<JStr("Lineage"), JStr("API/SDK"), JStr("Best practices")>>)>>>>))
  @@ ("{\"topics\":[\"Product\",\"NotARealTopic\"]}" :>
       JDict(<<<<"topics", JList(<<JStr("Product"), JStr("NotARealTopic")>>)>>>>))
  @@ ("{\"topics\":[\"product\"]}" :>
       JDict(<<<<"topics", JList(<<JStr("product")>>)>>>>))
  @@ ("{\"topics\":[]}" :>
       JDict(<<<<"topics", JList(<<>>)>>>>))
  @@ ("{\"topics\":\"Product\"}" :>
       JDict(<<<<"topics", JStr("Product")>>>>))
  @@ ("{\"topics\":[5]}" :>
       JDict(<<<<"topics", JList(<<JInt(5)>>)>>>>))
  @@ ("{\"topics\":null}" :>
       JDict(<<<<"topics", JNone>>>>))
  @@ ("{\"category\":\"Lineage\"}" :>
       JDict(<<<<"category", JStr("Lineage")>>>>))
  @@ ("{\"category\":\"Billing\"}" :>
       JDict(<<<<"category", JStr("Billing")>>>>))
  @@ ("{\"category\":null}" :>
       JDict(<<<<"category", JNone>>>>))
  @@ ("{\"label\":\"Product\"}" :>
       JDict(<<<<"label", JStr("Product")>>>>))
  @@ ("{\"topics\":[\"API/SDK\"]}" :>
       JDict(<<<<"topics", JList(<<JStr("API/SDK")>>)>>>>))
  @@ ("{\"topics\":[\"Sensitive data\"]}" :>
       JDict(<<<<"topics", JList(<<JStr("Sensitive data")>>)>>>>))
  @@ ("{\"topics\":[\"SSO\"]}" :>
       JDict(<<<<"topics", JList(<<JStr("SSO")>>)>>>>))
  @@ ("{\"topics\":[\"Connector\"]}" :>
       JDict(<<<<"topics", JList(<<JStr("Connector")>>)>>>>))
  @@ ("[\"topics\"]" :>
       JList(<<JStr("topics")>>))
  @@ ("[\"Product\"]" :>
       JList(<<JStr("Product")>>))
  @@ ("\"topics\"" :>
       JStr("topics"))
  @@ ("5" :>
       JInt(5))
  @@ ("null" :>
       JNone)
  @@ ("{\"sentiment\":\"Neutral\"}" :>
       JDict(<<<<"sentiment", JStr("Neutral")>>>>))
  @@ ("{\"sentiment\":\"Curious\"}" :>
       JDict(<<<<"sentiment", JStr("Curious")>>>>))
  @@ ("{\"sentiment\":\"ANGRY\"}" :>
       JDict(<<<<"sentiment", JStr("ANGRY")>>>>))
  @@ ("{\"sentiment\":\"confused\"}" :>
       JDict(<<<<"sentiment", JStr("confused")>>>>))
  @@ ("{\"sentiment\":\"fRuStRaTeD\"}" :>
       JDict(<<<<"sentiment", JStr("fRuStRaTeD")>>>>))
  @@ ("{\"sentiment\":\"Concerned\"}" :>
       JDict(<<<<"sentiment", JStr("Concerned")>>>>))
  @@ ("{\"sentiment\":\"WORRIED\"}" :>
       JDict(<<<<"sentiment", JStr("WORRIED")>>>>))
  @@ ("{\"sentiment\":\"annoyed\"}" :>
       JDict(<<<<"sentiment", JStr("annoyed")>>>>))
  @@ ("{\"sentiment\":\"Upset\"}" :>
       JDict(<<<<"sentiment", JStr("Upset")>>>>))
  @@ ("{\"sentiment\":\"iRRITATED\"}" :>
       JDict(<<<<"sentiment", JStr("iRRITATED")>>>>))
  @@ ("{\"sentiment\":\"Hostile\"}" :>
       JDict(<<<<"sentiment", JStr("Hostile")>>>>))
  @@ ("{\"sentiment\":\"furious\"}" :>
       JDict(<<<<"sentiment", JStr("furious")>>>>))
  @@ ("{\"sentiment\":\"gibberish\"}" :>
       JDict(<<<<"sentiment", JStr("gibberish")>>>>))
  @@ ("{\"sentiment\":\"Very angry\"}" :>
       JDict(<<<<"sentiment", JStr("Very angry")>>>>))
  @@ ("{\"sentiment\":\"\"}" :>
       JDict(<<<<"sentiment", JStr("")>>>>))
  @@ ("{\"mood\":\"Angry\"}" :>
       JDict(<<<<"mood", JStr("Angry")>>>>))
  @@ ("{\"sentiment\":\"Frustrated\"}" :>
       JDict(<<<<"sentiment", JStr("Frustrated")>>>>))
  @@ ("{\"sentiment\":null}" :>
       JDict(<<<<"sentiment", JNone>>>>))
  @@ ("{\"sentiment\":3}" :>
       JDict(<<<<"sentiment", JInt(3)>>>>))
  @@ ("{\"sentiment\":[\"Angry\"]}" :>
       JDict(<<<<"sentiment", JList(<<JStr("Angry")>>)>>>>))
  @@ ("[1,2]" :>
       JList(<<JInt(1), JInt(2)>>))
  @@ ("7" :>
       JInt(7))

json_loads(s) ==
  IF s \in DOMAIN JsonDocuments THEN JsonDocuments[s]
  ELSE [type |-> "JSONDecodeError"]

\* variant whose fallback carries a sentiment
ParseFallback_with_sentiment ==
  [type |-> "dict",
   items |-> <<<<"topics", [type |-> "list", items |-> <<[type |-> "str", s |-> "How-to"]>>]>>,
               <<"sentiment", [type |-> "str", s |-> "Angry"]>>>>]

\* the value returned when parsing fails (line 582)
ParseFallback ==
  JDict(<<<<"topics", JList(<<JStr("How-to")>>)>>,
          <<"reasoning", JStr("Failed to parse response")>>>>)

RECURSIVE RemoveChars(_, _)
RemoveChars(s, chars) ==
  IF Len(s) = 0 THEN ""
  ELSE (IF CharAt(s, 1) \in chars THEN "" ELSE CharAt(s, 1))
         \o RemoveChars(SubSeq(s, 2, Len(s)), chars)

\* line 571
CleanKey(key) == RemoveChars(strip(key), {"\n", "\r", "\t"})

_parse_json_response(response) ==
  LET parsed == json_loads(CleanResponse(response))
  IN IF parsed.type = "JSONDecodeError" THEN ParseFallback
     ELSE IF parsed.type = "dict"
     THEN JDict([i \in 1..Len(parsed.items) |->
                   <<CleanKey(parsed.items[i][1]), parsed.items[i][2]>>])
     ELSE parsed

----------------------------------------------------------------------------
(* Classification Normalizer: lines 371-412 of classify_ticket.  The       *)
(* result's exc names the exception that leaves the try block uncaught     *)
(* ("none" when the block completes or its except clause handles it).      *)

HowTo == "How-to"

\* the AttributeError of calling a method the value's type does not have
NoAttribute(value, method) ==
  [exc |-> "AttributeError",
   msg |-> "'" \o value.type \o "' object has no attribute '" \o method \o "'"]

\* TopicTag(topic) succeeds
ValidTopic(topic) == topic.type = "str" /\ topic.s \in TopicTag

\* variant that drops the invalid strings and keeps the valid ones
TopicTagsOf_filter(topics) ==
  LET valid == SelectSeq(topics, ValidTopic)
  IN [exc |-> "none",
      topic_tags |-> IF Len(valid) = 0 THEN <<HowTo>>
                     ELSE [i \in 1..Len(valid) |-> valid[i].s]]

\* line 383, with the except clause of lines 384-385
TopicTagsOf(topics) ==
  IF \A i \in 1..Len(topics) : ValidTopic(topics[i])
  THEN [exc |-> "none", topic_tags |-> [i \in 1..Len(topics) |-> topics[i].s]]
  ELSE [exc |-> "none", topic_tags |-> <<HowTo>>]

\* lines 372-385
NormalizeTopics(topic_data) ==
  LET has_topics == PyIn("topics", topic_data)
  IN IF has_topics = "TypeError"
     THEN [exc |-> "none", topic_tags |-> <<HowTo>>]
     ELSE IF has_topics = "True"
     THEN IF topic_data.type # "dict"
          THEN NoAttribute(topic_data, "get")
          ELSE LET topics == DictGet(topic_data, "topics", JList(<<JStr(HowTo)>>))
               IN TopicTagsOf(IF topics.type = "list" THEN topics.items
                              ELSE <<JStr(HowTo)>>)
     ELSE IF PyIn("category", topic_data) = "True"
     THEN IF topic_data.type # "dict"
          THEN NoAttribute(topic_data, "get")
          ELSE TopicTagsOf(<<DictGet(topic_data, "category", JStr(HowTo))>>)
     ELSE TopicTagsOf(<<JStr(HowTo)>>)

valid_sentiments == {"Neutral", "Curious", "Confused", "Frustrated", "Angry"}

sentiment_mapping ==
  ("Concerned" :> "Confused") @@ ("Worried" :> "Confused")
    @@ ("Annoyed" :> "Frustrated") @@ ("Upset" :> "Frustrated")
    @@ ("Irritated" :> "Frustrated") @@ ("Hostile" :> "Angry")
    @@ ("Furious" :> "Angry")

\* variant that validates before applying the synonym map
MapSentiment_validate_first(sentiment_label) ==
  IF sentiment_label \notin valid_sentiments THEN "Neutral" ELSE sentiment_label

\* lines 404-412, for a str label
MapSentiment(sentiment_label) ==
  LET label == IF sentiment_label \in DOMAIN sentiment_mapping
               THEN sentiment_mapping[sentiment_label]
               ELSE IF sentiment_label \notin valid_sentiments
               THEN "Neutral"
               ELSE sentiment_label
  IN IF label \in Sentiment THEN label ELSE "Neutral"

\* lines 387-412
NormalizeSentiment(sentiment_data) ==
  IF sentiment_data.type # "dict"
  THEN NoAttribute(sentiment_data, "get")
  ELSE LET raw == DictGet(sentiment_data, "sentiment", JStr("Neutral"))
       IN IF raw.type # "str"
          THEN NoAttribute(raw, "capitalize")
          ELSE [exc |-> "none", sentiment |-> MapSentiment(capitalize(raw.s))]

\* ', '.join(tags)
RECURSIVE JoinComma(_)
JoinComma(tags) ==
  IF Len(tags) = 0 THEN ""
  ELSE IF Len(tags) = 1 THEN Head(tags)
  ELSE Head(tags) \o ", " \o JoinComma(Tail(tags))

\* variant without the cap
Confidence_uncapped(priority_score) == 60 + Abs(10 * priority_score - 45)

\* line 418, in hundredths: min(0.95, 0.6 + abs(priority_score - 4.5) / 10.0)
Confidence(priority_score) == Min(95, 60 + Abs(10 * priority_score - 45))

\* lines 361, 367 and 371-429: classify_ticket once both calls have returned.
\* status is "ok" with the fields of the ClassificationResult, or "raise".
\* lines 372-429 of classify_ticket: an error of either conversion is raised,
\* else the priority, the confidence and the result
ClassifyNormalized(subj, bod, t, s) ==
  LET p == _calculate_priority_score(t.topic_tags, s.sentiment, subj, bod)
  IN IF t.exc # "none" THEN [status |-> "raise", exc |-> t.exc, msg |-> t.msg]
     ELSE IF s.exc # "none" THEN [status |-> "raise", exc |-> s.exc, msg |-> s.msg]
     ELSE [status     |-> "ok",
           topic_tags |-> t.topic_tags,
           sentiment  |-> s.sentiment,
           priority   |-> p.priority,
           confidence |-> Confidence(p.final_score),
           reasoning  |-> "Topics: " \o JoinComma(t.topic_tags)
                            \o "; Sentiment: " \o s.sentiment
                            \o "; Priority: " \o p.priority]

\* lines 356-429 of classify_ticket, from the two replies of the model
ClassifyResponses(subj, bod, topic_resp, sentiment_resp) ==
  ClassifyNormalized(subj, bod,
                     NormalizeTopics(_parse_json_response(topic_resp)),
                     NormalizeSentiment(_parse_json_response(sentiment_resp)))

----------------------------------------------------------------------------
(* Inputs of the scoring specification.                                    *)

\* one optional word per keyword table; each word scores in its own table only
UrgencyWords    == <<"", "assistance", "bug", "blocked">>
ImpactWords     == <<"", "few users", "department", "global">>
SeverityWords   == <<"", "guide", "deploy", "outage">>
ComplianceWords == <<"", "governance", "privacy", "gdpr">>
DeadlineWords   == <<"", "timely", "meeting">>
FrustrationWords == <<"", "stuck", "mad">>

\* " ".join of the non-empty words
RECURSIVE JoinWords(_)
JoinWords(ws) ==
  IF Len(ws) = 0 THEN ""
  ELSE LET rest == JoinWords(Tail(ws))
       IN IF Head(ws) = "" THEN rest
          ELSE IF rest = "" THEN Head(ws)
          ELSE Head(ws) \o " " \o rest

SlotTickets ==
  { <<"", JoinWords(<<UrgencyWords[u], ImpactWords[b], SeverityWords[s],
                      ComplianceWords[c], DeadlineWords[d], FrustrationWords[t]>>)>> :
      u \in 1..4, b \in 1..4, s \in 1..4, c \in 1..4, d \in 1..3, t \in 1..3 }

SpecialTickets ==
  { <<"", "">>,
    <<"Download link", "Where can I DOWNLOAD the report">>,
    <<"Question", "urgent issue, need help with a bug">>,
    <<"URGENT", "Production hit the Entire Organization, GDPR deadline, we are angry">>,
    <<"Glossary term", "Wondering about the definition of a metric">>,
    <<"SSO setup", "Our team is confused by the SSO configuration guide">> }

ScoreTickets == SlotTickets \cup SpecialTickets

\* a table whose scores are not in descending order
ProbeTable == <<<<"port", 1>>, <<"report", 3>>, <<"link", 2>>, <<"zzz", 5>>>>

KeywordTables ==
  { urgency_indicators, business_impact_indicators, severity_indicators,
    compliance_security_indicators, deadline_indicators, sentiment_indicators,
    ProbeTable }

MaxDefault == 2

----------------------------------------------------------------------------
(* The variables an operation does not use keep their initial values.      *)

NoResponse == "<none>"
NoReturn == [fn |-> "none"]
NoAnalysis == [topic_tags |-> <<>>]
NoCallers == <<>>

\* lines 41-44 of simple_tavily_system.py: the fields after __init__; a
\* component is TRUE when it is an instance and FALSE when it is None
NewSystem == [sentiment_agent |-> FALSE, tavily_rag |-> FALSE, initialized |-> FALSE]

AgentIdle ==
  /\ op = "none"
  /\ topic_response = NoResponse
  /\ sentiment_response = NoResponse
  /\ attempt = 0
  /\ cache = <<>>
  /\ tickets = <<>>
  /\ results = <<>>
  /\ log = <<>>
  /\ analysis = NoAnalysis
  /\ callers = NoCallers
  /\ system = NewSystem

(* SpecScore: _calculate_priority_score on one ticket text.                *)

InitScore ==
  /\ pc = "start"
  /\ \E tk \in ScoreTickets : subject = tk[1] /\ body = tk[2]
  /\ ret = NoReturn
  /\ AgentIdle

CalculatePriorityScore ==
  /\ pc = "start"
  /\ pc' = "done"
  /\ ret' = [fn |-> "_calculate_priority_score"]
              @@ _calculate_priority_score(<<>>, "Neutral", subject, body)
  /\ UNCHANGED <<op, ticketVars, callVars, cache, batchVars, analysis, callers, system>>

NextScore == CalculatePriorityScore

SpecScore == InitScore /\ [][NextScore]_vars

(* SpecKeyword: _get_max_keyword_score on one text, table and default.     *)

InitKeyword ==
  /\ pc = "start"
  /\ \E tk \in SpecialTickets : subject = tk[1] /\ body = tk[2]
  /\ ret = NoReturn
  /\ AgentIdle

GetMaxKeywordScore ==
  /\ pc = "start"
  /\ LET text == lower(subject \o " " \o body)
     IN \E keyword_dict \in KeywordTables, default \in 0..MaxDefault :
          ret' = [fn |-> "_get_max_keyword_score", text |-> text,
                  keyword_dict |-> keyword_dict, default |-> default,
                  value |-> _get_max_keyword_score(text, keyword_dict, default)]
  /\ pc' = "done"
  /\ UNCHANGED <<op, ticketVars, callVars, cache, batchVars, analysis, callers, system>>

NextKeyword == GetMaxKeywordScore

SpecKeyword == InitKeyword /\ [][NextKeyword]_vars

----------------------------------------------------------------------------
(* SpecNormalize: classify_ticket from the point where both external calls *)
(* have returned some text.                                                *)

\* raw outputs of the topic classification call
TopicResponses ==
  { "{\"topics\": [\"Product\"]}",
    "{\"topics\": [\"Product\", \"Connector\"]}",
    "{\"topics\": [\"Connector\", \"Connector\"]}",
    "{\"topics\": [\"Lineage\", \"API/SDK\", \"Best practices\"]}",
    "{\"topics\": [\"Product\", \"NotARealTopic\"]}",
    "{\"topics\": [\"product\"]}",
    "{\"topics\": []}",
    "{\"topics\": \"Product\"}",
    "{\"topics\": [5]}",
    "{\"topics\": null}",
    "{\"category\": \"Lineage\"}",
    "{\"category\": \"Billing\"}",
    "{\"category\": null}",
    "{\"label\": \"Product\"}",
    "I think this is a Product ticket",
    "~~~json\n{\"topics\": [\"API/SDK\"]}\n~~~",
    "~~~\n{ \"topics\" : [ \"Sensitive data\" ] }\n~~~",
    "Sure! {\"topics\": [\"SSO\"]} Hope this helps.",
    "[\"topics\"]",
    "[\"Product\"]",
    "\"topics\"",
    "5",
    "null" }

\* raw outputs of the sentiment classification call
SentimentResponses ==
  { "{\"sentiment\": \"Neutral\"}",
    "{\"sentiment\": \"Curious\"}",
    "{\"sentiment\": \"ANGRY\"}",
    "{\"sentiment\": \"confused\"}",
    "{\"sentiment\": \"fRuStRaTeD\"}",
    "{\"sentiment\": \"Concerned\"}",
    "{\"sentiment\": \"WORRIED\"}",
    "{\"sentiment\": \"annoyed\"}",
    "{\"sentiment\": \"Upset\"}",
    "{\"sentiment\": \"iRRITATED\"}",
    "{\"sentiment\": \"Hostile\"}",
    "{\"sentiment\": \"furious\"}",
    "{\"sentiment\": \"gibberish\"}",
    "{\"sentiment\": \"Very angry\"}",
    "{\"sentiment\": \"\"}",
    "{\"mood\": \"Angry\"}",
    "~~~json\n{ \"sentiment\" : \" Frustrated \" }\n~~~",
    "The customer sounds angry",
    "{\"sentiment\": null}",
    "{\"sentiment\": 3}",
    "{\"sentiment\": [\"Angry\"]}",
    "[1, 2]",
    "7" }

NormalizeTickets ==
  { <<"", "help me">>,
    <<"SSO Down", "Production login is BROKEN for everyone, we are furious">> }

InitNormalize ==
  /\ op = "classify_ticket"
  /\ pc = "responses"
  /\ \E tk \in NormalizeTickets : subject = tk[1] /\ body = tk[2]
  /\ topic_response \in TopicResponses
  /\ sentiment_response \in SentimentResponses
  /\ attempt = 0
  /\ cache = <<>>
  /\ tickets = <<>>
  /\ results = <<>>
  /\ log = <<>>
  /\ analysis = NoAnalysis
  /\ callers = NoCallers
  /\ system = NewSystem
  /\ ret = NoReturn

ClassifyFromResponses ==
  /\ pc = "responses"
  /\ pc' = "done"
  /\ ret' = [fn |-> "classify_ticket"]
              @@ ClassifyResponses(subject, body, topic_response, sentiment_response)
  /\ UNCHANGED <<op, ticketVars, callVars, cache, batchVars, analysis, callers, system>>

NextNormalize == ClassifyFromResponses

SpecNormalize == InitNormalize /\ [][NextNormalize]_vars

(* SpecConfidence: classify_ticket, from the point where both external     *)
(* calls have returned, on tickets whose texts reach every final score.    *)

\* one ticket per final score the scorer can give: 0..20 and 22
ScoreLadder ==
  { "", "stuck", "mad", "bug", "gdpr", "blocked", "bug mad", "bug outage",
    "bug gdpr", "blocked gdpr", "bug gdpr mad", "bug global gdpr",
    "bug outage gdpr", "bug global gdpr mad", "bug outage gdpr mad",
    "bug global outage gdpr", "bug global deploy gdpr mad",
    "bug global outage gdpr mad", "bug global outage gdpr meeting",
    "blocked global outage gdpr mad", "bug global outage gdpr meeting mad",
    "blocked global outage gdpr meeting mad" }

LadderTopicResponses ==
  { "{\"topics\": [\"Product\"]}", "I think this is a Product ticket" }

LadderSentimentResponses ==
  { "{\"sentiment\": \"Neutral\"}", "{\"sentiment\": \"furious\"}",
    "The customer sounds angry" }

InitConfidence ==
  /\ op = "classify_ticket"
  /\ pc = "responses"
  /\ subject = ""
  /\ body \in ScoreLadder
  /\ topic_response \in LadderTopicResponses
  /\ sentiment_response \in LadderSentimentResponses
  /\ attempt = 0
  /\ cache = <<>>
  /\ tickets = <<>>
  /\ results = <<>>
  /\ log = <<>>
  /\ analysis = NoAnalysis
  /\ callers = NoCallers
  /\ system = NewSystem
  /\ ret = NoReturn

NextConfidence == ClassifyFromResponses

SpecConfidence == InitConfidence /\ [][NextConfidence]_vars

----------------------------------------------------------------------------
(* Response Cache and the external classification capability.              *)

\* capacity of the cache; the source sets 1000 (line 92)
_cache_max_size == 2

\* line 472
max_retries == 3

\* topic_prompt.format(...) and sentiment_prompt.format(...), abridged to the
\* parts that tell two prompts apart
topic_prompt(subj, bod) ==
  "Classify this ticket. Subject: " \o subj \o "\nBody: " \o bod
sentiment_prompt(subj, bod) ==
  "Analyze the sentiment. Subject: " \o subj \o "\nBody: " \o bod

\* hashlib.md5(prompt.encode()).hexdigest(), taken as collision-free
md5(prompt) == <<"md5", prompt>>

CacheKeys(c) == { c[i][1] : i \in 1..Len(c) }

CacheGet(c, cache_key) == c[CHOOSE i \in 1..Len(c) : c[i][1] = cache_key][2]

\* lines 517-523
_cache_response(c, cache_key, response) ==
  LET n    == IF Len(c) >= _cache_max_size THEN Len(c) - _cache_max_size + 1 ELSE 0
      kept == SubSeq(c, n + 1, Len(c))
  IN IF cache_key \in CacheKeys(kept)
     THEN [i \in 1..Len(kept) |->
             IF kept[i][1] = cache_key THEN <<cache_key, response>> ELSE kept[i]]
     ELSE Append(kept, <<cache_key, response>>)

\* str(e) of the errors the client raises
ApiErrors == { "Error code: 429 - rate_limit_exceeded", "Connection error." }

\* line 494
IsRateLimit(error_str) ==
  Contains(error_str, "rate_limit_exceeded") \/ Contains(error_str, "429")

\* lines 502 and 509: the RuntimeError of the last failed attempt
RetriesExhausted(error_str) ==
  IF IsRateLimit(error_str)
  THEN "Rate limit exceeded after " \o ToString(max_retries) \o " attempts: " \o error_str
  ELSE "API call failed after " \o ToString(max_retries) \o " attempts: " \o error_str

----------------------------------------------------------------------------
(* Spec: one SentimentAgent serving classify_ticket and                    *)
(* classify_tickets_batch calls, one at a time.  classify_ticket is split  *)
(* at its two external calls, and each call at its attempts.               *)

MainTickets == { <<"", "help">>, <<"Login", "sso is down">> }

MainTopicResponses ==
  { "{\"topics\": [\"Product\", \"Connector\"]}",
    "{\"topics\": [\"Connector\"]}",
    "[\"topics\"]" }

MainSentimentResponses ==
  { "{\"sentiment\": \"Hostile\"}",
    "{\"sentiment\": null}" }

Batches ==
  { <<>>,
    << <<"", "help">> >>,
    << <<"Login", "sso is down">>, <<"", "help">> >>,
    << <<"", "help">>, <<"Login", "sso is down">>, <<"", "help">> >> }

Init ==
  /\ op = "none"
  /\ pc = "idle"
  /\ subject = ""
  /\ body = ""
  /\ topic_response = NoResponse
  /\ sentiment_response = NoResponse
  /\ attempt = 0
  /\ cache = <<>>
  /\ tickets = <<>>
  /\ results = <<>>
  /\ log = <<>>
  /\ analysis = NoAnalysis
  /\ callers = NoCallers
  /\ system = NewSystem
  /\ ret = NoReturn

\* classify_ticket is entered for the ticket tk
EnterClassifyTicket(tk) ==
  /\ subject' = tk[1]
  /\ body' = tk[2]
  /\ topic_response' = NoResponse
  /\ sentiment_response' = NoResponse
  /\ attempt' = 0
  /\ pc' = "topic_call"

\* a caller invokes classify_ticket(subject, body)
ClassifyTicket(tk) ==
  /\ pc = "idle"
  /\ UNCHANGED <<analysis, callers, system>>
  /\ op' = "classify_ticket"
  /\ EnterClassifyTicket(tk)
  /\ tickets' = <<>>
  /\ results' = <<>>
  /\ log' = <<>>
  /\ ret' = NoReturn
  /\ UNCHANGED cache

\* a caller invokes classify_tickets_batch(batch): lines 435-444
ClassifyTicketsBatch(batch) ==
  /\ pc = "idle"
  /\ UNCHANGED <<analysis, callers, system>>
  /\ tickets' = batch
  /\ results' = <<>>
  /\ log' = <<>>
  /\ IF Len(batch) = 0
     THEN /\ ret' = [fn |-> "classify_tickets_batch", status |-> "ok", results |-> <<>>]
          /\ UNCHANGED <<op, pc, ticketVars, callVars>>
     ELSE /\ op' = "classify_tickets_batch"
          /\ EnterClassifyTicket(batch[1])
          /\ ret' = NoReturn
  /\ UNCHANGED cache

\* the ClassificationResult of an outcome with status "ok"
ResultOf(outcome) ==
  [topic_tags |-> outcome.topic_tags, sentiment |-> outcome.sentiment,
   priority |-> outcome.priority, confidence |-> outcome.confidence,
   reasoning |-> outcome.reasoning]

\* lines 448-454: the record that replaces a ticket whose classification raised
BatchFallback(msg) ==
  [topic_tags |-> <<HowTo>>, sentiment |-> "Neutral", priority |-> P2,
   confidence |-> 10, reasoning |-> "Batch classification failed: " \o msg]

\* variant in which a ticket that raises ends the batch with the results so far
ClassifyTicketEnds_abort(outcome) ==
  /\ log' = Append(log, outcome)
  /\ IF op = "classify_ticket"
     THEN /\ ret' = [fn |-> "classify_ticket"] @@ outcome
          /\ op' = "none"
          /\ pc' = "idle"
          /\ attempt' = 0
          /\ UNCHANGED <<ticketVars, tickets, results>>
     ELSE LET rs == IF outcome.status = "ok" THEN Append(results, ResultOf(outcome))
                    ELSE results
          IN /\ results' = rs
             /\ UNCHANGED tickets
             /\ IF Len(rs) = Len(tickets) \/ outcome.status # "ok"
                THEN /\ ret' = [fn |-> "classify_tickets_batch", status |-> "ok",
                                results |-> rs]
                     /\ op' = "none"
                     /\ pc' = "idle"
                     /\ attempt' = 0
                     /\ UNCHANGED ticketVars
                ELSE /\ subject' = tickets[Len(rs) + 1][1]
                     /\ body' = tickets[Len(rs) + 1][2]
                     /\ attempt' = 0
                     /\ pc' = "topic_call"
                     /\ UNCHANGED <<op, ret>>

\* classify_ticket ends with outcome (a result or a raised error) and its
\* caller goes on: lines 445-461 for the batch
ClassifyTicketEnds(outcome) ==
  /\ log' = Append(log, outcome)
  /\ IF op = "classify_ticket"
     THEN /\ ret' = [fn |-> "classify_ticket"] @@ outcome
          /\ op' = "none"
          /\ pc' = "idle"
          /\ attempt' = 0
          /\ UNCHANGED <<ticketVars, tickets, results>>
     ELSE LET rs == Append(results, IF outcome.status = "ok" THEN ResultOf(outcome)
                                    ELSE BatchFallback(outcome.msg))
          IN /\ results' = rs
             /\ UNCHANGED tickets
             /\ IF Len(rs) = Len(tickets)
                THEN /\ ret' = [fn |-> "classify_tickets_batch", status |-> "ok",
                                results |-> rs]
                     /\ op' = "none"
                     /\ pc' = "idle"
                     /\ attempt' = 0
                     /\ UNCHANGED ticketVars
                ELSE /\ subject' = tickets[Len(rs) + 1][1]
                     /\ body' = tickets[Len(rs) + 1][2]
                     /\ attempt' = 0
                     /\ pc' = "topic_call"
                     /\ UNCHANGED <<op, ret>>

\* _get_llm_response returns response to classify_ticket: after the topic
\* call the sentiment call follows (line 364), after the sentiment call the
\* rest of classify_ticket runs (lines 367-429)
LLMReturns(response) ==
  IF pc = "topic_call"
  THEN /\ topic_response' = response
       /\ sentiment_response' = NoResponse
       /\ attempt' = 0
       /\ pc' = "sentiment_call"
       /\ UNCHANGED <<op, ticketVars, batchVars, ret>>
  ELSE /\ topic_response' = NoResponse
       /\ sentiment_response' = NoResponse
       /\ ClassifyTicketEnds(ClassifyResponses(subject, body, topic_response, response))

InCall == pc \in {"topic_call", "sentiment_call"}

cache_key ==
  md5(IF pc = "topic_call" THEN topic_prompt(subject, body)
      ELSE sentiment_prompt(subject, body))

\* lines 466-468: the prompt is in the cache
LLMCacheHit ==
  /\ InCall
  /\ UNCHANGED <<analysis, callers, system>>
  /\ attempt = 0
  /\ cache_key \in CacheKeys(cache)
  /\ LLMReturns(CacheGet(cache, cache_key))
  /\ UNCHANGED cache

\* lines 476-490: an attempt succeeds with the text response
LLMAttemptSucceeds(response) ==
  /\ InCall
  /\ UNCHANGED <<analysis, callers, system>>
  /\ cache_key \notin CacheKeys(cache)
  /\ attempt < max_retries
  /\ cache' = _cache_response(cache, cache_key, response)
  /\ LLMReturns(response)

\* variant that swallows the failure of the last attempt and goes on with
\* an empty response
LLMAttemptFails_default(error_str) ==
  /\ InCall
  /\ UNCHANGED <<analysis, callers, system>>
  /\ cache_key \notin CacheKeys(cache)
  /\ attempt < max_retries
  /\ IF attempt < max_retries - 1
     THEN /\ attempt' = attempt + 1
          /\ UNCHANGED <<op, pc, ticketVars, topic_response, sentiment_response,
                         batchVars, ret>>
     ELSE LLMReturns("")
  /\ UNCHANGED cache

\* lines 492-509: an attempt fails with the error text error_str; the loop
\* sleeps and retries, or raises after the last attempt, and classify_ticket
\* turns the error into its own RuntimeError (lines 368-369)
LLMAttemptFails(error_str) ==
  /\ InCall
  /\ UNCHANGED <<analysis, callers, system>>
  /\ cache_key \notin CacheKeys(cache)
  /\ attempt < max_retries
  /\ IF attempt < max_retries - 1
     THEN /\ attempt' = attempt + 1
          /\ UNCHANGED <<op, pc, ticketVars, topic_response, sentiment_response,
                         batchVars, ret>>
     ELSE /\ topic_response' = NoResponse
          /\ sentiment_response' = NoResponse
          /\ ClassifyTicketEnds([status |-> "raise", exc |-> "RuntimeError",
                                 msg |-> "API call failed: " \o RetriesExhausted(error_str)])
  /\ UNCHANGED cache

Next ==
  \/ \E tk \in MainTickets : ClassifyTicket(tk)
  \/ \E batch \in Batches : ClassifyTicketsBatch(batch)
  \/ LLMCacheHit
  \/ \E response \in (IF pc = "topic_call" THEN MainTopicResponses
                      ELSE MainSentimentResponses) : LLMAttemptSucceeds(response)
  \/ \E error_str \in ApiErrors : LLMAttemptFails(error_str)

Spec == Init /\ [][Next]_vars

----------------------------------------------------------------------------
(* Routing Policy: SimpleTavilySystem.process_ticket from the point where  *)
(* analyze_ticket has returned, and                                        *)
(* TavilyRAGIntegration.should_use_realtime_search.                        *)

\* line 120 of simple_tavily_system.py
tavily_topics == {"How-to", "Product", "Best practices", "API/SDK", "SSO"}

\* variant that looks at the primary (first) topic only
ShouldUseTavily_primary(topic_tags) ==
  Len(topic_tags) > 0 /\ topic_tags[1] \in tavily_topics

\* line 121
ShouldUseTavily(topic_tags) ==
  \E i \in 1..Len(topic_tags) : topic_tags[i] \in tavily_topics

\* variant that tests the docs topics before API/SDK
SiteType_docs_first(topic_tags) ==
  IF \E i \in 1..Len(topic_tags) :
       topic_tags[i] \in {"Product", "Best practices", "SSO", "How-to"}
  THEN "docs"
  ELSE IF \E i \in 1..Len(topic_tags) : topic_tags[i] = "API/SDK" THEN "devhub"
  ELSE "both"

\* lines 128-132
SiteType(topic_tags) ==
  IF \E i \in 1..Len(topic_tags) : topic_tags[i] = "API/SDK" THEN "devhub"
  ELSE IF \E i \in 1..Len(topic_tags) :
            topic_tags[i] \in {"Product", "Best practices", "SSO", "How-to"}
  THEN "docs"
  ELSE "both"

\* variant that selects the site by the primary topic
OptimizedSiteType_primary(topic_tags) ==
  IF Len(topic_tags) > 0 /\ topic_tags[1] = "API/SDK" THEN "devhub"
  ELSE "docs"

\* lines 186-192 of tavily_rag_integration.py: the site type chosen by
\* get_optimized_search_prompt
OptimizedSiteType(topic_tags) ==
  IF \E i \in 1..Len(topic_tags) : topic_tags[i] = "API/SDK" THEN "devhub"
  ELSE "docs"

\* lines 97-100 of tavily_rag_integration.py: the site type search_documentation
\* searches when it is called with site_type and topic_tags
SearchedSiteType(site_type, topic_tags) ==
  IF Len(topic_tags) > 0 THEN OptimizedSiteType(topic_tags) ELSE site_type

\* lines 162-170
routing_messages ==
  ("Connector" :> "This ticket has been classified as a 'Connector' issue and routed to the appropriate team.")
    @@ ("Lineage" :> "This ticket has been classified as a 'Lineage' issue and routed to the appropriate team.")
    @@ ("Glossary" :> "This ticket has been classified as a 'Glossary' issue and routed to the appropriate team.")
    @@ ("Sensitive data" :> "This ticket has been classified as a 'Sensitive data' issue and routed to the appropriate team.")
    @@ ("Other" :> "This ticket has been classified as 'Other' and routed to the appropriate team.")

RoutingMessage(topic_tags) ==
  LET primary_topic == IF Len(topic_tags) > 0 THEN topic_tags[1] ELSE "Other"
  IN IF primary_topic \in DOMAIN routing_messages
     THEN routing_messages[primary_topic]
     ELSE "This ticket has been classified as a '" \o primary_topic
            \o "' issue and routed to the appropriate team."

\* lines 118-180: the TavilyResponse, given whether the search found results;
\* site_type is the scope handed to search_documentation and searched the
\* scope it searches ("none" when the ticket is escalated).  The answer and the confidence of a found result
\* come from generate_realtime_answer (confidence in hundredths).
RouteResponse(an, found, realtime_confidence) ==
  IF ShouldUseTavily(an.topic_tags)
  THEN IF ~found
       THEN [is_tavily_used |-> TRUE, site_type |-> SiteType(an.topic_tags),
             searched |-> SearchedSiteType(SiteType(an.topic_tags), an.topic_tags),
             answer |-> "I couldn't find current information about this topic in the documentation.",
             confidence |-> 0, routing_message |-> "None"]
       ELSE [is_tavily_used |-> TRUE, site_type |-> SiteType(an.topic_tags),
             searched |-> SearchedSiteType(SiteType(an.topic_tags), an.topic_tags),
             answer |-> "<realtime answer>",
             confidence |-> realtime_confidence, routing_message |-> "None"]
  ELSE [is_tavily_used |-> FALSE, site_type |-> "none", searched |-> "none",
        answer |-> RoutingMessage(an.topic_tags),
        confidence |-> 100, routing_message |-> RoutingMessage(an.topic_tags)]

\* main.py line 196
rag_topics == {"How-to", "Product", "Best practices", "API/SDK", "SSO"}

\* main.py lines 195-221: the answer of the /api/tickets handler to a ticket
\* classified with topic_tags.  The name rag_system is not defined in
\* main.py, so the call of line 201 raises NameError and the handler answers
\* with status 500.
MainProcessTicket(topic_tags) ==
  IF \E i \in 1..Len(topic_tags) : topic_tags[i] \in rag_topics
  THEN [status |-> 500,
        detail |-> "Error processing ticket: name 'rag_system' is not defined"]
  ELSE LET primary_topic == IF Len(topic_tags) > 0 THEN topic_tags[1] ELSE "Other"
       IN [status |-> 200,
           final_response |-> "This ticket has been classified as a '" \o primary_topic
                                \o "' issue and routed to the appropriate team."]

\* line 369 of tavily_rag_integration.py
tavily_allowed_topics == {"How-to", "Product", "Best practices", "API/SDK", "SSO"}

\* lines 379-382 of tavily_rag_integration.py
time_sensitive_keywords ==
  <<"latest", "new", "recent", "updated", "current", "2024", "2025",
    "recently", "just released", "new feature", "latest version">>

\* lines 365-389 of tavily_rag_integration.py; static_confidence in hundredths
should_use_realtime_search(query, topic_tags, static_confidence) ==
  LET has_allowed_topics ==
        \E i \in 1..Len(topic_tags) : topic_tags[i] \in tavily_allowed_topics
      has_time_keywords ==
        \E k \in 1..Len(time_sensitive_keywords) :
          Contains(lower(query), time_sensitive_keywords[k])
  IN IF ~has_allowed_topics THEN FALSE
     ELSE static_confidence < 70 \/ has_time_keywords \/ has_allowed_topics

(* SpecRoute: the routing of one analysed ticket.                          *)

MaxTags == 2

\* the topic lists of at most MaxTags tags
TagLists == UNION { [1..n -> TopicTag] : n \in 0..MaxTags }

\* min(1.0, avg_score) of the search results, in hundredths
RealtimeConfidences == {0, 80, 100}

RouteTexts == { "what is the latest sdk version", "sso is down" }

\* lines 102-108: the TicketAnalysis of a ticket text whose classification
\* gave the topic tags and the sentiment
TicketAnalysis(text, topic_tags, sentiment) ==
  LET p == _calculate_priority_score(topic_tags, sentiment, "", text)
  IN [topic_tags |-> topic_tags, sentiment |-> sentiment, priority |-> p.priority,
      confidence |-> Confidence(p.final_score)]

InitRoute ==
  /\ op = "process_ticket"
  /\ pc = "analyzed"
  /\ subject = ""
  /\ body \in RouteTexts
  /\ \E tags \in TagLists, s \in {"Neutral", "Angry"} :
       analysis = TicketAnalysis(body, tags, s)
  /\ callers = NoCallers
  /\ system = NewSystem
  /\ topic_response = NoResponse
  /\ sentiment_response = NoResponse
  /\ attempt = 0
  /\ cache = <<>>
  /\ tickets = <<>>
  /\ results = <<>>
  /\ log = <<>>
  /\ ret = NoReturn

RouteTicket ==
  /\ pc = "analyzed"
  /\ \E found \in BOOLEAN, realtime_confidence \in RealtimeConfidences :
       ret' = [fn |-> "process_ticket"]
                @@ RouteResponse(analysis, found, realtime_confidence)
  /\ pc' = "done"
  /\ UNCHANGED <<op, ticketVars, callVars, cache, batchVars, analysis, callers, system>>

ShouldUseRealtimeSearch ==
  /\ pc = "analyzed"
  /\ \E static_confidence \in {50, 90} :
       ret' = [fn |-> "should_use_realtime_search",
               static_confidence |-> static_confidence,
               value |-> should_use_realtime_search(body, analysis.topic_tags,
                                                    static_confidence)]
  /\ pc' = "done"
  /\ UNCHANGED <<op, ticketVars, callVars, cache, batchVars, analysis, callers, system>>

\* the /api/tickets handler of main.py once classify_ticket has returned
ApiTickets ==
  /\ pc = "analyzed"
  /\ ret' = [fn |-> "api_tickets"] @@ MainProcessTicket(analysis.topic_tags)
  /\ pc' = "done"
  /\ UNCHANGED <<op, ticketVars, callVars, cache, batchVars, analysis, callers, system>>

NextRoute == RouteTicket \/ ShouldUseRealtimeSearch \/ ApiTickets

SpecRoute == InitRoute /\ [][NextRoute]_vars

----------------------------------------------------------------------------
(* _get_llm_response and _cache_response statement by statement, for the   *)
(* callers that share one SentimentAgent.  callers[t] is the frame of      *)
(* caller t: its position, its locals (prompt, attempt, result,            *)
(* keys_to_remove) and, as history, the number of requests it sent to the  *)
(* capability (calls), the errors it caught, the responses the capability  *)
(* served, the time.sleep calls it made (delays, in tenths of a second),    *)
(* the cache as it was when the call began (cache_before) and the outcome  *)
(* of its last completed call.  log is the history of the keys whose       *)
(* insertion into the cache completed, in order.                           *)

LLMPrompts == { "p1", "p2", "p3" }

LLMResponses == { "r1", "r2" }

\* insertions after which no further call is started
MaxInserts == 4

NoOutcome == [status |-> "none"]

IdleFrame ==
  [pc |-> "idle", prompt |-> "", attempt |-> 0, result |-> NoResponse,
   keys_to_remove |-> <<>>, calls |-> 0, errors |-> <<>>, served |-> <<>>,
   delays |-> <<>>, cache_before |-> <<>>, outcome |-> NoOutcome]

\* the variables _get_llm_response does not touch
llmFrame == <<op, pc, subject, body, topic_response, sentiment_response, attempt,
              tickets, results, analysis, system, ret>>

\* the call of caller t ends with outcome
Return(t, outcome) ==
  callers' = [callers EXCEPT ![t] =
                [IdleFrame EXCEPT !.outcome =
                   outcome @@ [prompt |-> callers[t].prompt, calls |-> callers[t].calls,
                               errors |-> callers[t].errors, served |-> callers[t].served,
                               delays |-> callers[t].delays,
                               cache_before |-> callers[t].cache_before]]]

\* lines 463-467: caller t calls _get_llm_response(prompt); the key is looked
\* up in the cache
GetLLMResponse(t, prompt) ==
  /\ callers[t].pc = "idle"
  /\ Len(log) < MaxInserts
  /\ callers' = [callers EXCEPT ![t] =
                   [IdleFrame EXCEPT !.prompt = prompt,
                                     !.cache_before = cache,
                                     !.pc = IF md5(prompt) \in CacheKeys(cache)
                                            THEN "hit" ELSE "attempt"]]
  /\ UNCHANGED <<cache, log, llmFrame>>

\* variant that moves the entry it reads to the newest end of the cache
LLMCacheRead_touch(t) ==
  /\ callers[t].pc = "hit"
  /\ LET key == md5(callers[t].prompt)
     IN /\ key \in CacheKeys(cache)
        /\ cache' = Append(SelectSeq(cache, LAMBDA e : e[1] # key),
                           <<key, CacheGet(cache, key)>>)
        /\ Return(t, [status |-> "ok", hit |-> TRUE, value |-> CacheGet(cache, key)])
  /\ UNCHANGED <<log, llmFrame>>

\* line 468: return self._cache[cache_key]; the subscript raises KeyError
\* when the entry is gone
LLMCacheRead(t) ==
  /\ callers[t].pc = "hit"
  /\ LET key == md5(callers[t].prompt)
     IN IF key \in CacheKeys(cache)
        THEN Return(t, [status |-> "ok", hit |-> TRUE, value |-> CacheGet(cache, key)])
        ELSE Return(t, [status |-> "raise", exc |-> "KeyError",
                        msg |-> "'" \o callers[t].prompt \o "'"])
  /\ UNCHANGED <<cache, log, llmFrame>>

\* line 473
base_delay == 1

\* random.uniform(0.5, 1.5) in tenths of a second: the two ends and the middle
Jitters == {5, 10, 15}

\* variant that backs off after every kind of error
RetryDelay_always_backoff(k, error_str, jitter) ==
  base_delay * 10 * (2 ^ k) + jitter

\* lines 496 and 503: the argument of time.sleep before the retry that follows
\* the failure error_str of attempt k, in tenths of a second
RetryDelay(k, error_str, jitter) ==
  IF IsRateLimit(error_str)
  THEN base_delay * 10 * (2 ^ k) + jitter
  ELSE base_delay * 10

\* variant that gives up at the first error
HandleError_no_retry(t, f, error_str) ==
  callers' = [callers EXCEPT ![t] =
                [IdleFrame EXCEPT !.outcome =
                   [status |-> "raise", exc |-> "RuntimeError",
                    msg |-> RetriesExhausted(error_str),
                    prompt |-> f.prompt, calls |-> f.calls,
                    errors |-> Append(f.errors, error_str),
                    served |-> f.served, delays |-> f.delays,
                    cache_before |-> f.cache_before]]]

\* lines 492-511: the except clause of the retry loop, entered by frame f
\* with the error text error_str.  The loop goes on while range(max_retries)
\* has a next value; line 511 follows the loop.
HandleError(t, f, error_str) ==
  IF f.attempt < max_retries - 1
  THEN IF f.attempt + 1 < max_retries
       THEN \E jitter \in Jitters :
              callers' = [callers EXCEPT ![t] =
                            [f EXCEPT !.pc = "attempt", !.attempt = f.attempt + 1,
                                      !.result = NoResponse, !.keys_to_remove = <<>>,
                                      !.errors = Append(f.errors, error_str),
                                      !.delays = Append(f.delays,
                                        RetryDelay(f.attempt, error_str, jitter))]]
       ELSE Return(t, [status |-> "raise", exc |-> "RuntimeError",
                       msg |-> "Unexpected error in API call"])
  ELSE callers' = [callers EXCEPT ![t] =
                     [IdleFrame EXCEPT !.outcome =
                        [status |-> "raise", exc |-> "RuntimeError",
                         msg |-> RetriesExhausted(error_str),
                         prompt |-> f.prompt, calls |-> f.calls,
                         errors |-> Append(f.errors, error_str),
                         served |-> f.served, delays |-> f.delays,
                    cache_before |-> f.cache_before]]]

\* lines 476-488: the request of this attempt is answered with response
LLMRequestSucceeds(t, response) ==
  /\ callers[t].pc = "attempt"
  /\ callers' = [callers EXCEPT ![t] =
                   [@ EXCEPT !.pc = "cache_size", !.result = response,
                             !.calls = @ + 1, !.served = Append(@, response)]]
  /\ UNCHANGED <<cache, log, llmFrame>>

\* lines 476-483 and 492-509: the request of this attempt raises error_str
LLMRequestFails(t, error_str) ==
  /\ callers[t].pc = "attempt"
  /\ HandleError(t, [callers[t] EXCEPT !.calls = @ + 1], error_str)
  /\ UNCHANGED <<cache, log, llmFrame>>

\* variant that evicts the latest-inserted entries
KeysToRemove_newest(c) ==
  LET n == Len(c) - _cache_max_size + 1
  IN [i \in 1..n |-> c[Len(c) - n + i][1]]

\* line 519: list(self._cache.keys())[:len(self._cache) - self._cache_max_size + 1]
KeysToRemove(c) ==
  LET n == Len(c) - _cache_max_size + 1
  IN [i \in 1..n |-> c[i][1]]

\* lines 517-519 of _cache_response, called at line 489
CacheCheckSize(t) ==
  /\ callers[t].pc = "cache_size"
  /\ callers' = [callers EXCEPT ![t] =
                   IF Len(cache) >= _cache_max_size
                   THEN [@ EXCEPT !.pc = "evict", !.keys_to_remove = KeysToRemove(cache)]
                   ELSE [@ EXCEPT !.pc = "insert"]]
  /\ UNCHANGED <<cache, log, llmFrame>>

\* lines 520-521: del self._cache[key] for the next key; a missing key raises
\* KeyError inside the try block of _get_llm_response, whose except clause
\* treats it as a failed attempt
CacheEvict(t) ==
  /\ callers[t].pc = "evict"
  /\ LET f   == callers[t]
         key == Head(f.keys_to_remove)
     IN IF key \in CacheKeys(cache)
        THEN /\ cache' = SelectSeq(cache, LAMBDA e : e[1] # key)
             /\ callers' = [callers EXCEPT ![t] =
                              [f EXCEPT !.keys_to_remove = Tail(f.keys_to_remove),
                                        !.pc = IF Len(f.keys_to_remove) = 1
                                               THEN "insert" ELSE "evict"]]
        ELSE /\ HandleError(t, f, "KeyError: '" \o key[2] \o "'")
             /\ UNCHANGED cache
  /\ UNCHANGED <<log, llmFrame>>

\* line 523, and the return of line 490
CacheInsert(t) ==
  /\ callers[t].pc = "insert"
  /\ LET f   == callers[t]
         key == md5(f.prompt)
     IN /\ cache' = IF key \in CacheKeys(cache)
                    THEN [i \in 1..Len(cache) |->
                            IF cache[i][1] = key THEN <<key, f.result>> ELSE cache[i]]
                    ELSE Append(cache, <<key, f.result>>)
        /\ log' = Append(log, key)
        /\ Return(t, [status |-> "ok", hit |-> FALSE, value |-> f.result])
  /\ UNCHANGED llmFrame

InitCallers(Callers) ==
  /\ op = "_get_llm_response"
  /\ pc = "callers"
  /\ subject = ""
  /\ body = ""
  /\ topic_response = NoResponse
  /\ sentiment_response = NoResponse
  /\ attempt = 0
  /\ cache = <<>>
  /\ tickets = <<>>
  /\ results = <<>>
  /\ log = <<>>
  /\ analysis = NoAnalysis
  /\ callers = [t \in Callers |-> IdleFrame]
  /\ system = NewSystem
  /\ ret = NoReturn

\* one statement of one caller
NextLLM ==
  \/ \E t \in DOMAIN callers, prompt \in LLMPrompts : GetLLMResponse(t, prompt)
  \/ \E t \in DOMAIN callers : LLMCacheRead(t)
  \/ \E t \in DOMAIN callers, response \in LLMResponses : LLMRequestSucceeds(t, response)
  \/ \E t \in DOMAIN callers, error_str \in ApiErrors : LLMRequestFails(t, error_str)
  \/ \E t \in DOMAIN callers : CacheCheckSize(t)
  \/ \E t \in DOMAIN callers : CacheEvict(t)
  \/ \E t \in DOMAIN callers : CacheInsert(t)

(* SpecLLM: one caller, as in the request handlers, which call             *)
(* classify_ticket one after the other.                                    *)

InitLLM == InitCallers({1})

SpecLLM == InitLLM /\ [][NextLLM]_vars

(* SpecConcurrent: two threads share the agent.                            *)

InitConcurrent == InitCallers({1, 2})

\* one statement of one of the callers; one response text and one error text
\* are enough to tell the interleavings apart
NextConcurrent ==
  \/ \E t \in DOMAIN callers, prompt \in LLMPrompts : GetLLMResponse(t, prompt)
  \/ \E t \in DOMAIN callers : LLMCacheRead(t)
  \/ \E t \in DOMAIN callers : LLMRequestSucceeds(t, "r1")
  \/ \E t \in DOMAIN callers : LLMRequestFails(t, "Connection error.")
  \/ \E t \in DOMAIN callers : CacheCheckSize(t)
  \/ \E t \in DOMAIN callers : CacheEvict(t)
  \/ \E t \in DOMAIN callers : CacheInsert(t)

SpecConcurrent == InitConcurrent /\ [][NextConcurrent]_vars

(* SpecRepeat: _calculate_priority_score called again and again on an      *)
(* agent whose cache holds earlier responses.  log is the history of the   *)
(* calls: the ticket and the (priority, final score) it was given.         *)

\* calls after which no further call is made
MaxScoreCalls == 2

\* tickets in groups whose members differ in letter case only
CaseGroups ==
  << { <<"URGENT", "Login is DOWN">>,
       <<"urgent", "login is down">>,
       <<"Urgent", "LOGIN IS DOWN">> },
     { <<"Download", "Get the REPORT">>,
       <<"download", "get the report">> },
     { <<"", "help me">> } >>

CaseTickets == UNION { CaseGroups[g] : g \in DOMAIN CaseGroups }

\* caches left by earlier classify_ticket calls
SampleCaches ==
  { <<>>,
    _cache_response(<<>>, md5(topic_prompt("", "help me")), "{\"topics\": [\"Product\"]}"),
    _cache_response(
      _cache_response(<<>>, md5(topic_prompt("", "help me")), "{\"topics\": [\"Product\"]}"),
      md5(sentiment_prompt("", "help me")), "{\"sentiment\": \"Angry\"}") }

InitRepeat ==
  /\ op = "none"
  /\ pc = "start"
  /\ subject = ""
  /\ body = ""
  /\ topic_response = NoResponse
  /\ sentiment_response = NoResponse
  /\ attempt = 0
  /\ cache \in SampleCaches
  /\ tickets = <<>>
  /\ results = <<>>
  /\ log = <<>>
  /\ analysis = NoAnalysis
  /\ callers = NoCallers
  /\ system = NewSystem
  /\ ret = NoReturn

\* one more call _calculate_priority_score(topic_tags, sentiment, subject, body)
CalculatePriorityScoreAgain ==
  /\ pc = "start"
  /\ Len(log) < MaxScoreCalls
  /\ \E tk \in CaseTickets, topic_tags \in {<<>>, <<"Product">>},
        sentiment \in {"Neutral", "Angry"} :
       LET p == _calculate_priority_score(topic_tags, sentiment, tk[1], tk[2])
       IN /\ subject' = tk[1]
          /\ body' = tk[2]
          /\ ret' = [fn |-> "_calculate_priority_score"] @@ p
          /\ log' = Append(log, [subject |-> tk[1], body |-> tk[2],
                                 priority |-> p.priority,
                                 final_score |-> p.final_score])
  /\ UNCHANGED <<op, pc, callVars, cache, tickets, results, analysis, callers, system>>

NextRepeat == CalculatePriorityScoreAgain

SpecRepeat == InitRepeat /\ [][NextRepeat]_vars

----------------------------------------------------------------------------
(* Properties of the Priority Engine and the Keyword Scorer.               *)

Scored == ret.fn = "_calculate_priority_score"

\* the six keyword tables, in the order of ret.scores
ScoreTables ==
  <<urgency_indicators, business_impact_indicators, severity_indicators,
    compliance_security_indicators, deadline_indicators, sentiment_indicators>>

\* no phrase of any of the six tables occurs in text
NoKeyword(text) ==
  \A k \in 1..6 : \A i \in 1..Len(ScoreTables[k]) :
    ~Contains(text, ScoreTables[k][i][1])

MatchedScores(text, keyword_dict) ==
  { keyword_dict[i][2] : i \in { j \in 1..Len(keyword_dict) :
                                   Contains(text, keyword_dict[j][1]) } }

SetMax(S) == CHOOSE m \in S : \A x \in S : x <= m

\* C4: _get_max_keyword_score returns the maximum of default and the scores
\* of all phrases of the table that occur as substrings of the text, and
\* exactly default when none occurs; a phrase inside a longer word matches.
C4_MaxOfMatches ==
  ret.fn = "_get_max_keyword_score" =>
    LET matched == MatchedScores(ret.text, ret.keyword_dict)
    IN /\ ret.value = SetMax({ret.default} \cup matched)
       /\ matched = {} => ret.value = ret.default
       /\ (subject = "Download link" /\ ret.keyword_dict = urgency_indicators)
            => ret.value = 3

C4_Witness ==
  /\ ret.fn = "_get_max_keyword_score"
  /\ Cardinality(MatchedScores(ret.text, ret.keyword_dict)) >= 3
  /\ ret.value > ret.default
  /\ ret.value = SetMax(MatchedScores(ret.text, ret.keyword_dict))

----------------------------------------------------------------------------
(* Properties of the Classification Normalizer.                            *)

Classified == ret.fn = "classify_ticket" /\ ret.status = "ok"

\* the parsed topic and sentiment outputs of the ticket in hand
topic_data == _parse_json_response(topic_response)
sentiment_data == _parse_json_response(sentiment_response)

\* the parsed topic output is an object whose 'topics' value is a list
HasTopicList ==
  /\ topic_data.type = "dict"
  /\ HasKey(topic_data, "topics")
  /\ DictGet(topic_data, "topics", JNone).type = "list"

RawTopics == DictGet(topic_data, "topics", JNone).items

\* C5: every ClassificationResult returned by classify_ticket has a non-empty
\* topic_tags; it is [How-to] when the parsed topic output has neither a
\* 'topics' nor a 'category' key, when 'topics' is not a list, and when
\* 'topics' is an empty list.
C5_TopicTagsNonEmpty ==
  Classified =>
    /\ Len(ret.topic_tags) >= 1
    /\ (topic_data.type = "dict" /\ ~HasKey(topic_data, "topics")
          /\ ~HasKey(topic_data, "category")) => ret.topic_tags = <<HowTo>>
    /\ (topic_data.type = "dict" /\ HasKey(topic_data, "topics") /\ ~HasTopicList)
          => ret.topic_tags = <<HowTo>>
    /\ (HasTopicList /\ Len(RawTopics) = 0) => ret.topic_tags = <<HowTo>>

\* C6: topic validation is all-or-nothing: a raw list whose strings are all
\* Topic values (case-sensitively) is returned unchanged, in order and with
\* duplicates; a raw list with at least one string that is not a Topic value
\* gives exactly [How-to].
C6_AllOrNothing ==
  (Classified /\ HasTopicList /\ \A i \in 1..Len(RawTopics) : RawTopics[i].type = "str")
    => IF \A i \in 1..Len(RawTopics) : RawTopics[i].s \in TopicTag
       THEN /\ Len(ret.topic_tags) = Len(RawTopics)
            /\ \A i \in 1..Len(RawTopics) : ret.topic_tags[i] = RawTopics[i].s
       ELSE ret.topic_tags = <<HowTo>>

C6_Witness ==
  /\ Classified
  /\ HasTopicList
  /\ Len(RawTopics) = 2
  /\ RawTopics[1] = JStr("Product")
  /\ RawTopics[2].type = "str" /\ RawTopics[2].s \notin TopicTag
  /\ ret.topic_tags = <<HowTo>>

\* the sentiment the claim assigns to a raw sentiment string
ExpectedSentiment(raw) ==
  LET l == lower(raw)
  IN CASE l \in {"concerned", "worried"} -> "Confused"
       [] l \in {"annoyed", "upset", "irritated"} -> "Frustrated"
       [] l \in {"hostile", "furious"} -> "Angry"
       [] l = "frustrated" -> "Frustrated"
       [] l = "curious" -> "Curious"
       [] l = "angry" -> "Angry"
       [] l = "neutral" -> "Neutral"
       [] l = "confused" -> "Confused"
       [] OTHER -> "Neutral"

\* C7: a raw sentiment string is title-cased, then mapped through the
\* synonyms (Concerned/Worried -> Confused, Annoyed/Upset/Irritated ->
\* Frustrated, Hostile/Furious -> Angry); the result is that value when it
\* is one of the five Sentiment values and Neutral otherwise, also when the
\* 'sentiment' key is absent; a Sentiment value in any letter case maps to
\* itself.
C7_SentimentNormalized ==
  (Classified /\ sentiment_data.type = "dict") =>
    LET raw == DictGet(sentiment_data, "sentiment", JNone)
    IN /\ ret.sentiment \in Sentiment
       /\ ~HasKey(sentiment_data, "sentiment") => ret.sentiment = "Neutral"
       /\ (HasKey(sentiment_data, "sentiment") /\ raw.type = "str")
            => /\ ret.sentiment = ExpectedSentiment(raw.s)
               /\ \A v \in Sentiment : lower(raw.s) = lower(v) => ret.sentiment = v

C7_Witness ==
  /\ Classified
  /\ sentiment_data.type = "dict"
  /\ DictGet(sentiment_data, "sentiment", JNone) = JStr("WORRIED")
  /\ ret.sentiment = "Confused"

\* C8: whenever both external calls return some text, classify_ticket
\* returns a complete ClassificationResult and raises no error, whatever the
\* text is.
C8_NeverRaises ==
  ret.fn = "classify_ticket" =>
    /\ ret.status = "ok"
    /\ \A i \in 1..Len(ret.topic_tags) : ret.topic_tags[i] \in TopicTag
    /\ ret.sentiment \in Sentiment
    /\ ret.priority \in Priority
    /\ ret.confidence \in 0..100

----------------------------------------------------------------------------
(* Properties of the Routing Policy.                                       *)

AllowedTopics == {"How-to", "Product", "Best practices", "API/SDK", "SSO"}

HasAllowedTopic(topic_tags) ==
  \E i \in 1..Len(topic_tags) : topic_tags[i] \in AllowedTopics

\* C1: process_ticket takes the automated-answer path if and only if at
\* least one topic tag is in {How-to, Product, Best practices, API/SDK, SSO}
\* and escalates otherwise, whatever the sentiment, priority, confidence or
\* text; should_use_realtime_search returns the same predicate for every
\* query and every static_confidence.
C1_RoutingRule ==
  /\ ret.fn = "process_ticket" =>
       /\ ret.is_tavily_used <=> HasAllowedTopic(analysis.topic_tags)
       /\ ~ret.is_tavily_used <=> ret.routing_message # "None"
  /\ ret.fn = "should_use_realtime_search" =>
       (ret.value <=> HasAllowedTopic(analysis.topic_tags))

C1_Witness ==
  /\ ret.fn = "process_ticket"
  /\ analysis.topic_tags = <<"Connector", "Product">>
  /\ analysis.sentiment = "Angry"
  /\ ret.is_tavily_used

----------------------------------------------------------------------------
(* Properties of the Ticket Classifier.                                    *)

\* the step is the last attempt of an external call, and it fails
LastAttemptFails ==
  /\ InCall
  /\ attempt = max_retries - 1
  /\ cache_key \notin CacheKeys(cache)
  /\ cache' = cache
  /\ vars' # vars

\* C9: when the topic call or the sentiment call fails after its retries,
\* classify_ticket raises an error and returns no ClassificationResult.
C9_FailurePropagates ==
  [][LastAttemptFails =>
       /\ Len(log') = Len(log) + 1
       /\ log'[Len(log')].status = "raise"
       /\ log'[Len(log')].exc = "RuntimeError"
       /\ op = "classify_ticket" =>
            ret'.fn = "classify_ticket" /\ ret'.status = "raise"]_vars

\* classify_ticket raised although its topic call had returned a response
C9_Witness ==
  /\ ret.fn = "classify_ticket"
  /\ ret.status = "raise"
  /\ ret.exc = "RuntimeError"
  /\ md5(topic_prompt(subject, body)) \in CacheKeys(cache)
  /\ md5(sentiment_prompt(subject, body)) \notin CacheKeys(cache)

\* C10: classify_tickets_batch returns exactly one result per input ticket,
\* in input order; a ticket whose classification raises is replaced by the
\* record ([How-to], Neutral, P2, confidence 0.1, reasoning with the error
\* text) and the later tickets are still classified.
C10_BatchTotal ==
  /\ op = "classify_tickets_batch" =>
       Len(results) = Len(log) /\ Len(results) < Len(tickets)
  /\ ret.fn = "classify_tickets_batch" =>
       /\ ret.status = "ok"
       /\ Len(ret.results) = Len(tickets)
       /\ Len(log) = Len(tickets)
       /\ \A i \in 1..Len(tickets) :
            IF log[i].status = "raise"
            THEN /\ ret.results[i].topic_tags = <<"How-to">>
                 /\ ret.results[i].sentiment = "Neutral"
                 /\ ret.results[i].priority = P2
                 /\ ret.results[i].confidence = 10
                 /\ Contains(ret.results[i].reasoning, log[i].msg)
            ELSE /\ ret.results[i] = ResultOf(log[i])
                 /\ ret.results[i].priority
                      = _calculate_priority_score(<<>>, "Neutral", tickets[i][1], tickets[i][2]).priority

C10_Witness ==
  /\ ret.fn = "classify_tickets_batch"
  /\ Len(tickets) = 3
  /\ log[1].status = "raise"
  /\ log[2].status = "ok"
  /\ log[3].status = "raise"
  /\ ret.results[2].priority = P0

----------------------------------------------------------------------------
(* Properties of the retry loop and of the Response Cache.                 *)

RateLimitError == "Error code: 429 - rate_limit_exceeded"

\* C11: on a cache miss _get_llm_response sends at most 3 requests to the
\* capability; it returns the response of the first request that succeeds,
\* it raises a RuntimeError if and only if all 3 requests fail, and it makes
\* no 4th request and returns no value after 3 failures.
C11_RetryCeiling ==
  \A t \in DOMAIN callers :
    LET f == callers[t]
        o == f.outcome
    IN /\ f.calls <= 3
       /\ o.status = "raise" =>
            /\ o.exc = "RuntimeError"
            /\ o.calls = 3
            /\ Len(o.errors) = 3
            /\ o.served = <<>>
       /\ (o.status = "ok" /\ ~o.hit) =>
            /\ o.calls \in 1..3
            /\ Len(o.errors) = o.calls - 1
            /\ o.served = <<o.value>>
       /\ (o.status # "none" /\ Len(o.errors) = 3) => o.status = "raise"

\* two rate-limit failures, then a success: a result and no error
C11_Witness ==
  \E t \in DOMAIN callers :
    LET o == callers[t].outcome
    IN /\ o.status = "ok"
       /\ o.errors = <<RateLimitError, RateLimitError>>
       /\ o.calls = 3
       /\ o.value = "r2"

\* no caller is between the size check and the insertion of _cache_response
CacheQuiescent ==
  \A t \in DOMAIN callers : callers[t].pc \notin {"evict", "insert"}

\* the keys of the cache, earliest-inserted first
CacheKeySeq == [i \in 1..Len(cache) |-> cache[i][1]]

\* the last n elements of the sequence s
LastN(s, n) == SubSeq(s, Len(s) - n + 1, Len(s))

----------------------------------------------------------------------------
(* Properties of the search scope and of the escalation message.           *)

Routed == ret.fn = "process_ticket"

TagSet(topic_tags) == { topic_tags[i] : i \in 1..Len(topic_tags) }

\* C13: on the automated path the search scope is devhub if API/SDK is among
\* the topic tags, otherwise docs if any of Product, Best practices, SSO,
\* How-to is present, otherwise both; [API/SDK] gives devhub and
\* [Product, Connector] gives docs.
C13_SearchScope ==
  (Routed /\ ret.is_tavily_used) =>
    LET tags == TagSet(analysis.topic_tags)
    IN /\ "API/SDK" \in tags => ret.site_type = "devhub"
       /\ ("API/SDK" \notin tags
             /\ tags \cap {"Product", "Best practices", "SSO", "How-to"} # {})
            => ret.site_type = "docs"
       /\ tags \cap {"API/SDK", "Product", "Best practices", "SSO", "How-to"} = {}
            => ret.site_type = "both"
       /\ analysis.topic_tags = <<"API/SDK">> => ret.site_type = "devhub"
       /\ analysis.topic_tags = <<"Product", "Connector">> => ret.site_type = "docs"
       /\ ret.searched = ret.site_type

C13_Witness ==
  /\ Routed
  /\ ret.is_tavily_used
  /\ analysis.topic_tags = <<"Product", "Connector">>
  /\ ret.site_type = "docs"
  /\ ret.searched = "docs"

\* the first topic tag of the analysed ticket, Other when there is none
PrimaryTopic ==
  IF Len(analysis.topic_tags) > 0 THEN analysis.topic_tags[1] ELSE "Other"

EscalationTemplate(topic) ==
  "This ticket has been classified as a '" \o topic
    \o "' issue and routed to the appropriate team."

\* C14: for every escalated ticket the escalation message is the template
\* "This ticket has been classified as a '{topic}' issue and routed to the
\* appropriate team." instantiated with the first topic tag (Connector,
\* Lineage, Glossary, Sensitive data, Other).
C14_EscalationTemplate ==
  /\ (Routed /\ ~ret.is_tavily_used) =>
       /\ ret.routing_message = EscalationTemplate(PrimaryTopic)
       /\ ret.answer = ret.routing_message
  /\ (ret.fn = "api_tickets" /\ ret.status = 200) =>
       ret.final_response = EscalationTemplate(PrimaryTopic)

----------------------------------------------------------------------------
(* Properties of the priority and the confidence of a classification.      *)

\* the score of the ticket in hand, from its subject and body alone
TextScore == _calculate_priority_score(<<>>, "Neutral", subject, body)

\* C15: the priority and the confidence of a ClassificationResult depend
\* only on subject and body: whatever topic and sentiment outputs the
\* capability returns for a ticket, the result carries the priority and the
\* confidence of the ticket's text.
C15_PriorityFromTextOnly ==
  Classified =>
    /\ ret.priority = TextScore.priority
    /\ ret.confidence = Confidence(TextScore.final_score)

\* the capability calls the ticket Angry and the text scores low
C15_Witness ==
  /\ Classified
  /\ ret.sentiment = "Angry"
  /\ ret.topic_tags = <<"Connector", "Connector">>
  /\ body = "help me"
  /\ ret.priority = P2
  /\ ret.confidence = 85

\* the group of tickets equal up to letter case that holds the ticket of e
CaseGroupOf(e) ==
  CHOOSE g \in DOMAIN CaseGroups : <<e.subject, e.body>> \in CaseGroups[g]

MidDistance(final_score) == Abs(10 * final_score - 45)

\* C17: for every final score the confidence of classify_ticket, in
\* hundredths, is min(95, 60 + 10 * |final - 4.5|): it lies within [0, 1],
\* in fact within [0.65, 0.95], it never decreases as |final - 4.5| grows,
\* and it is 0.95 for every final score <= 1 or >= 8.
C17_ConfidenceFormula ==
  Classified =>
    LET final == TextScore.final_score
        d     == MidDistance(final)
    IN /\ final \in 0..22
       /\ ret.confidence = (IF 60 + d < 95 THEN 60 + d ELSE 95)
       /\ ret.confidence \in 0..100
       /\ ret.confidence \in 65..95
       /\ (final <= 1 \/ final >= 8) => ret.confidence = 95
       /\ ret.confidence = CASE d = 5  -> 65
                             [] d = 15 -> 75
                             [] d = 25 -> 85
                             [] OTHER  -> 95

\* the score nearest to the midpoint gives the lowest confidence
C17_Witness ==
  /\ Classified
  /\ TextScore.final_score = 4
  /\ ret.confidence = 65

----------------------------------------------------------------------------
(* Properties of the fallbacks of classify_ticket and of the parser.       *)

\* the response is not JSON even after the cleaning of _parse_json_response
Unparseable(response) ==
  json_loads(CleanResponse(response)).type = "JSONDecodeError"

\* the topic list names something that is not a Topic value
UnknownTopic ==
  HasTopicList /\ \E i \in 1..Len(RawTopics) : ~ValidTopic(RawTopics[i])

\* the sentiment label is a string that is neither a Sentiment value nor a
\* synonym of one
UnknownSentiment ==
  /\ sentiment_data.type = "dict"
  /\ HasKey(sentiment_data, "sentiment")
  /\ LET raw == DictGet(sentiment_data, "sentiment", JNone)
     IN /\ raw.type = "str"
        /\ lower(raw.s) \notin { lower(v) : v \in Sentiment }
        /\ capitalize(raw.s) \notin DOMAIN sentiment_mapping

FallbackApplied ==
  \/ Unparseable(topic_response)
  \/ Unparseable(sentiment_response)
  \/ UnknownTopic
  \/ UnknownSentiment

\* the confidence classify_ticket gives the ticket in hand when both outputs
\* are well-formed and valid
WellFormedConfidence ==
  ClassifyResponses(subject, body, "{\"topics\": [\"Product\"]}",
                    "{\"sentiment\": \"Neutral\"}").confidence

\* C18: when classify_ticket had to apply a fallback (unparseable response,
\* unknown topic, unknown sentiment) the returned classification is complete
\* and its confidence is strictly lower than the confidence of the same
\* subject and body with well-formed and valid outputs.
C18_FallbackLowersConfidence ==
  (Classified /\ FallbackApplied) =>
    /\ ret.sentiment \in Sentiment
    /\ ret.priority \in Priority
    /\ \A i \in 1..Len(ret.topic_tags) : ret.topic_tags[i] \in TopicTag
    /\ ret.confidence < WellFormedConfidence

----------------------------------------------------------------------------
(* Properties of the cache under concurrent callers.                       *)

\* an error text of a failed del self._cache[key]
IsEvictionError(error_str) == Contains(error_str, "KeyError")

\* C19: when two or more callers run _get_llm_response concurrently on the
\* same agent, the check-evict-insert sequence of _cache_response runs under
\* mutual exclusion: under every interleaving the cache never holds more
\* than capacity entries, no eviction step fails on a key another caller
\* already removed, and no inserted entry is lost other than by FIFO
\* eviction.
C19_MutualExclusion ==
  /\ Len(cache) <= _cache_max_size
  /\ Cardinality({ t \in DOMAIN callers : callers[t].pc \in {"evict", "insert"} }) <= 1
  /\ \A t \in DOMAIN callers :
       /\ \A i \in 1..Len(callers[t].errors) : ~IsEvictionError(callers[t].errors[i])
       /\ callers[t].outcome.status = "raise" =>
            /\ callers[t].outcome.exc # "KeyError"
            /\ \A i \in 1..Len(callers[t].outcome.errors) :
                 ~IsEvictionError(callers[t].outcome.errors[i])
  /\ (CacheQuiescent /\ Len(log) > 0) => log[Len(log)] \in CacheKeys(cache)

JsonTypes == {"dict", "list", "str", "int", "NoneType"}

\* the fallback of the parser: topics [How-to] and no sentiment key
IsParseFallback(data) ==
  /\ data.type = "dict"
  /\ HasKey(data, "topics")
  /\ DictGet(data, "topics", JNone) = JList(<<JStr("How-to")>>)
  /\ ~HasKey(data, "sentiment")

\* C20: _parse_json_response never raises: for every raw response that
\* still cannot be parsed after fence stripping, brace extraction and
\* whitespace collapsing it returns the fallback whose topics are [How-to]
\* and which has no sentiment key, so a ticket whose two responses are both
\* unparseable is classified with topic_tags [How-to] and sentiment Neutral.
C20_ParseFallback ==
  pc = "done" =>
    /\ topic_data.type \in JsonTypes
    /\ sentiment_data.type \in JsonTypes
    /\ Unparseable(topic_response) => IsParseFallback(topic_data)
    /\ Unparseable(sentiment_response) => IsParseFallback(sentiment_data)
    /\ (Unparseable(topic_response) /\ Unparseable(sentiment_response)) =>
         /\ Classified
         /\ ret.topic_tags = <<HowTo>>
         /\ ret.sentiment = "Neutral"

C20_Witness ==
  /\ pc = "done"
  /\ topic_response = "I think this is a Product ticket"
  /\ sentiment_response = "The customer sounds angry"
  /\ Unparseable(topic_response)
  /\ Unparseable(sentiment_response)
  /\ Classified
  /\ ret.topic_tags = <<HowTo>>
  /\ ret.sentiment = "Neutral"

----------------------------------------------------------------------------
(* Properties of the waits of _get_llm_response (SpecLLM).                 *)

\* the waits made after the failures errors[1..Len(delays)] are the ones the
\* kind of each failure asks for, in tenths of a second
WaitsMatch(errors, delays) ==
  /\ Len(delays) <= Len(errors)
  /\ Len(delays) <= 2
  /\ \A k \in 1..Len(delays) :
       IF IsRateLimit(errors[k])
       THEN /\ delays[k] >= 10 * (2 ^ (k - 1)) + 5
            /\ delays[k] <= 10 * (2 ^ (k - 1)) + 15
            /\ delays[k] > 10
       ELSE delays[k] = 10

\* C21: the wait before a retry depends on the kind of failure of attempt k
\* (k = 0, 1): after a rate-limit failure it is base_delay * 2^k plus a
\* jitter within [0.5, 1.5] seconds, after any other failure it is exactly
\* base_delay (1 s), shorter than every rate-limit wait; there is no wait
\* after the third failed attempt and none after a success.
C21_RetryWaits ==
  \A t \in DOMAIN callers :
    LET f == callers[t]
        o == f.outcome
    IN /\ WaitsMatch(f.errors, f.delays)
       /\ f.pc # "idle" => Len(f.delays) = Len(f.errors)
       /\ o.status = "ok" =>
            /\ WaitsMatch(o.errors, o.delays)
            /\ Len(o.delays) = Len(o.errors)
       /\ (o.status = "raise" /\ o.exc = "RuntimeError") =>
            /\ WaitsMatch(o.errors, o.delays)
            /\ Len(o.errors) = 3
            /\ Len(o.delays) = 2

\* a rate-limit failure with the longest jitter, then a connection error,
\* then a third failure: waits of 2.5 s and 1 s and none after the last
C21_Witness ==
  \E t \in DOMAIN callers :
    LET o == callers[t].outcome
    IN /\ o.status = "raise"
       /\ o.errors = <<RateLimitError, "Connection error.", RateLimitError>>
       /\ o.delays = <<25, 10>>

\* the cache is changed by the step, and caller t is the one that changes it
ChangesCache(t) ==
  /\ cache' # cache
  /\ callers'[t] # callers[t]

----------------------------------------------------------------------------
(* SpecBatch: the loops of classify_tickets_batch statement by statement.  *)
(* callers[1] is the frame of the call: its position and its locals i,     *)
(* batch and the number k of tickets of batch already taken.  log is the   *)
(* history of the call: the tickets handed to classify_ticket and the      *)
(* time.sleep calls, in order.                                             *)

\* line 436
batch_size == 3

\* the longest ticket list handed to classify_tickets_batch
MaxBatch == 7

\* the ticket with the number k
TicketNo(k) == <<"t" \o ToString(k), "help">>

\* what classify_ticket does with the ticket tk: a result, or the error of
\* lines 368-369 after a failed call
BatchOutcomes(tk) ==
  { ClassifyResponses(tk[1], tk[2], "{\"topics\": [\"Connector\"]}",
                      "{\"sentiment\": \"Hostile\"}"),
    [status |-> "raise", exc |-> "RuntimeError",
     msg |-> "API call failed: " \o RetriesExhausted("Connection error.")] }

BatchFrame(at, i, batch, k) == [pc |-> at, i |-> i, batch |-> batch, k |-> k]

InitBatch ==
  /\ op = "none"
  /\ pc = "idle"
  /\ subject = ""
  /\ body = ""
  /\ topic_response = NoResponse
  /\ sentiment_response = NoResponse
  /\ attempt = 0
  /\ cache = <<>>
  /\ tickets = <<>>
  /\ results = <<>>
  /\ log = <<>>
  /\ analysis = NoAnalysis
  /\ callers = <<BatchFrame("idle", 0, <<>>, 0)>>
  /\ system = NewSystem
  /\ ret = NoReturn

\* the variables classify_tickets_batch does not touch
batchFrame == <<subject, body, topic_response, sentiment_response, attempt,
                cache, analysis, system>>

\* lines 431-436: classify_tickets_batch(tickets) is called with n tickets
BatchCall(n) ==
  /\ pc = "idle"
  /\ ret = NoReturn
  /\ op' = "classify_tickets_batch"
  /\ pc' = "running"
  /\ tickets' = [k \in 1..n |-> TicketNo(k)]
  /\ results' = <<>>
  /\ callers' = <<BatchFrame("for_i", 0, <<>>, 0)>>
  /\ UNCHANGED <<log, ret, batchFrame>>

\* lines 438-439 and 461: the next i of range(0, len(tickets), batch_size)
\* and its batch, or the return after the loop
BatchLoop ==
  /\ pc = "running"
  /\ callers[1].pc = "for_i"
  /\ LET i == callers[1].i
     IN IF i < Len(tickets)
        THEN /\ callers' = <<BatchFrame("for_ticket", i,
                                        SubSeq(tickets, i + 1,
                                               Min(i + batch_size, Len(tickets))), 0)>>
             /\ UNCHANGED <<op, pc, ret>>
        ELSE /\ callers' = <<BatchFrame("idle", 0, <<>>, 0)>>
             /\ op' = "none"
             /\ pc' = "idle"
             /\ ret' = [fn |-> "classify_tickets_batch", status |-> "ok",
                        results |-> results]
  /\ UNCHANGED <<tickets, results, log, batchFrame>>

\* lines 442-454: the next ticket of batch is classified; status tells
\* whether classify_ticket returns or raises
BatchTicket(status) ==
  /\ pc = "running"
  /\ callers[1].pc = "for_ticket"
  /\ callers[1].k < Len(callers[1].batch)
  /\ LET f  == callers[1]
         tk == f.batch[f.k + 1]
     IN \E outcome \in BatchOutcomes(tk) :
          /\ outcome.status = status
          /\ log' = Append(log, [ev |-> "classify_ticket", ticket |-> tk,
                                 status |-> status])
          /\ results' = Append(results, IF status = "ok" THEN ResultOf(outcome)
                                        ELSE BatchFallback(outcome.msg))
          /\ callers' = <<[f EXCEPT !.k = f.k + 1]>>
  /\ UNCHANGED <<op, pc, tickets, ret, batchFrame>>

\* variant that sleeps after every batch, the last one included
BatchPause_always ==
  /\ pc = "running"
  /\ callers[1].pc = "for_ticket"
  /\ callers[1].k = Len(callers[1].batch)
  /\ log' = Append(log, [ev |-> "sleep", seconds |-> 2])
  /\ callers' = <<BatchFrame("for_i", callers[1].i + batch_size, <<>>, 0)>>
  /\ UNCHANGED <<op, pc, tickets, results, ret, batchFrame>>

\* lines 456-459: after the last ticket of batch, time.sleep(2) when a
\* further batch follows
BatchPause ==
  /\ pc = "running"
  /\ callers[1].pc = "for_ticket"
  /\ callers[1].k = Len(callers[1].batch)
  /\ log' = IF callers[1].i + batch_size < Len(tickets)
            THEN Append(log, [ev |-> "sleep", seconds |-> 2])
            ELSE log
  /\ callers' = <<BatchFrame("for_i", callers[1].i + batch_size, <<>>, 0)>>
  /\ UNCHANGED <<op, pc, tickets, results, ret, batchFrame>>

NextBatch ==
  \/ \E n \in 0..MaxBatch : BatchCall(n)
  \/ BatchLoop
  \/ \E status \in {"ok", "raise"} : BatchTicket(status)
  \/ BatchPause

SpecBatch == InitBatch /\ [][NextBatch]_vars

(* Properties of classify_tickets_batch (SpecBatch).                       *)

\* the number of classify_ticket events among the first p events of log
RECURSIVE ClassifiedBefore(_)
ClassifiedBefore(p) ==
  IF p = 0 THEN 0
  ELSE ClassifiedBefore(p - 1) + (IF log[p].ev = "classify_ticket" THEN 1 ELSE 0)

\* the number of time.sleep events in log
Pauses == Len(log) - ClassifiedBefore(Len(log))

\* C23: classify_tickets_batch processes the tickets in input order in
\* consecutive groups of 3 (the last group may be smaller) and pauses exactly
\* between consecutive groups: a pause comes after every ticket of a group
\* and before any ticket of the next group, never after the last group, so
\* for n tickets there are max(0, ceil(n/3) - 1) pauses.
C23_BatchPauses ==
  /\ \A p \in 1..Len(log) :
       LET done == ClassifiedBefore(p)
       IN IF log[p].ev = "classify_ticket"
          THEN /\ log[p].ticket = tickets[done]
               /\ (p > 1 /\ done > 1 /\ (done - 1) % 3 = 0) => log[p - 1].ev = "sleep"
          ELSE /\ log[p].seconds = 2
               /\ done > 0 /\ done % 3 = 0 /\ done < Len(tickets)
               /\ log[p - 1].ev = "classify_ticket"
  /\ ret.fn = "classify_tickets_batch" =>
       /\ ClassifiedBefore(Len(log)) = Len(tickets)
       /\ Len(ret.results) = Len(tickets)
       /\ Pauses = Max(0, (Len(tickets) + 2) \div 3 - 1)

\* seven tickets, one of them failing: three groups and two pauses
C23_Witness ==
  /\ ret.fn = "classify_tickets_batch"
  /\ Len(tickets) = 7
  /\ Pauses = 2
  /\ log[4].ev = "sleep" /\ log[8].ev = "sleep"
  /\ log[5].status = "raise"

\* C24: for every topic list that takes the automated path the scope
\* process_ticket selects is docs or devhub, never both, and it is the site
\* type get_optimized_search_prompt gives for the same topic list, so the
\* override inside search_documentation leaves the scope as process_ticket
\* chose it.
C24_ScopeOverrideAgrees ==
  (Routed /\ ret.is_tavily_used) =>
    /\ ret.site_type \in {"docs", "devhub"}
    /\ ret.site_type = OptimizedSiteType(analysis.topic_tags)
    /\ SearchedSiteType(ret.site_type, analysis.topic_tags) = ret.site_type
    /\ ret.searched = ret.site_type

\* API/SDK as the second topic: both selections say devhub
C24_Witness ==
  /\ Routed /\ ret.is_tavily_used
  /\ analysis.topic_tags = <<"Connector", "API/SDK">>
  /\ ret.site_type = "devhub"
  /\ ret.searched = "devhub"

----------------------------------------------------------------------------
(* SpecMonotone: _calculate_priority_score on two ticket texts, one call   *)
(* after the other.  tickets holds the two tickets and results the value   *)
(* returned for each.                                                      *)

MonotoneTexts ==
  ScoreLadder \cup { "help", "bug help", "download the guide", "sso question" }

InitMonotone ==
  /\ op = "_calculate_priority_score"
  /\ pc = "start"
  /\ subject = ""
  /\ body = ""
  /\ topic_response = NoResponse
  /\ sentiment_response = NoResponse
  /\ attempt = 0
  /\ cache = <<>>
  /\ \E a \in MonotoneTexts, b \in MonotoneTexts : tickets = << <<"", a>>, <<"", b>> >>
  /\ results = <<>>
  /\ log = <<>>
  /\ analysis = NoAnalysis
  /\ callers = NoCallers
  /\ system = NewSystem
  /\ ret = NoReturn

\* _calculate_priority_score(topic_tags, sentiment, subject, body) on the next
\* of the two tickets
CalculatePriorityScoreNext ==
  /\ pc = "start"
  /\ Len(results) < Len(tickets)
  /\ LET tk == tickets[Len(results) + 1]
     IN /\ subject' = tk[1]
        /\ body' = tk[2]
        /\ results' = Append(results,
                             _calculate_priority_score(<<>>, "Neutral", tk[1], tk[2]))
  /\ pc' = IF Len(results) + 1 = Len(tickets) THEN "done" ELSE "start"
  /\ UNCHANGED <<op, callVars, cache, tickets, log, analysis, callers, system, ret>>

NextMonotone == CalculatePriorityScoreNext

SpecMonotone == InitMonotone /\ [][NextMonotone]_vars

(* Properties of the scorer on two texts (SpecMonotone).                   *)

\* the text _calculate_priority_score searches for the ticket tk
ScoredText(tk) == lower(tk[1] \o " " \o tk[2])

\* every keyword phrase of the six tables that occurs in the text of ticket a
\* occurs in the text of ticket b
PhrasesCarriedOver(a, b) ==
  \A k \in 1..6 : \A i \in 1..Len(ScoreTables[k]) :
    Contains(ScoredText(a), ScoreTables[k][i][1])
      => Contains(ScoredText(b), ScoreTables[k][i][1])

\* P2 is the lowest tier and P0 the highest
TierRank(priority) == IF priority = P0 THEN 2 ELSE IF priority = P1 THEN 1 ELSE 0

BothScored == pc = "done" /\ Len(results) = 2

\* C25: priority scoring is monotone in the text: when every keyword phrase
\* that occurs in text A also occurs in text B, each of the six sub-scores
\* of B is >= that of A, the final score of B is >= that of A, and the tier
\* of B is not lower than the tier of A.
C25_ScoreMonotone ==
  (BothScored /\ PhrasesCarriedOver(tickets[1], tickets[2])) =>
    /\ \A k \in 1..6 : results[2].scores[k] >= results[1].scores[k]
    /\ results[2].final_score >= results[1].final_score
    /\ TierRank(results[2].priority) >= TierRank(results[1].priority)

\* text appended to the body lifts the ticket from the lowest tier to the
\* highest
C25_Witness ==
  /\ BothScored
  /\ tickets[1][2] = "bug"
  /\ tickets[2][2] = "bug outage gdpr"
  /\ PhrasesCarriedOver(tickets[1], tickets[2])
  /\ results[1].priority = P2
  /\ results[2].priority = P0
  /\ results[2].scores[1] = results[1].scores[1]

----------------------------------------------------------------------------
(* SpecSystem: the SimpleTavilySystem behind the /api/interactive-agent    *)
(* and /api/upload handlers of main.py.  A handler runs until it awaits    *)
(* the documentation search inside process_ticket; the requests of other   *)
(* clients are served while it waits.                                      *)

\* how the construction of a component goes: the key is set and the
\* constructor returns, the key is missing, or the constructor raises
Components == {"ok", "no_key", "raises"}

\* the environments a call on sys can tell apart: initialize alone reads the
\* environment, so one stands for all of them once sys is initialized
Environments(sys) ==
  IF sys.initialized THEN { <<"ok", "ok">> } ELSE Components \X Components

\* lines 46-93 of simple_tavily_system.py: the fields after initialize(); the
\* inner handlers catch every error of a constructor
initialize(claude, tavily) ==
  [sentiment_agent |-> claude = "ok", tavily_rag |-> tavily = "ok",
   initialized |-> TRUE]

\* variant that runs initialize on every call
EnsureInitialized_always(sys, claude, tavily) == initialize(claude, tavily)

\* lines 112-113: process_ticket initializes a system that is not initialized
EnsureInitialized(sys, claude, tavily) ==
  IF ~sys.initialized THEN initialize(claude, tavily) ELSE sys

\* the cache of the agent of sys1: a SentimentAgent constructed by initialize
\* starts with an empty cache (line 91 of sentiment_agent.py)
AgentCache(sys, sys1, c) == IF sys1 # sys /\ sys1.sentiment_agent THEN <<>> ELSE c

\* what the external service does with a request: it answers with a text, or
\* every attempt fails with an error
Reply(text) == [ok |-> TRUE, text |-> text]
Failure(error_str) == [ok |-> FALSE, error_str |-> error_str]

SystemTexts == { "help" }
UploadSubjects == { "", "Login" }

SystemTopicReplies ==
  { Reply("{\"topics\": [\"Product\"]}"),
    Reply("{\"topics\": [\"Connector\"]}"),
    Failure("Connection error.") }

SystemSentimentReplies ==
  { Reply("{\"sentiment\": \"Neutral\"}"),
    Failure("Connection error.") }

\* the outcomes a call with this prompt can have: one, the cached response,
\* when the prompt is cached
RepliesFor(c, prompt, replies) ==
  IF md5(prompt) \in CacheKeys(c)
  THEN { Reply(CacheGet(c, md5(prompt))) }
  ELSE replies

\* lines 463-511 of sentiment_agent.py: _get_llm_response(prompt) from the first
\* statement to the return or the raise, when the service behaves as reply
LLMCall(c, prompt, reply) ==
  IF md5(prompt) \in CacheKeys(c)
  THEN [status |-> "ok", response |-> CacheGet(c, md5(prompt)), cache |-> c,
        external |-> FALSE]
  ELSE IF reply.ok
  THEN [status |-> "ok", response |-> reply.text,
        cache |-> _cache_response(c, md5(prompt), reply.text), external |-> TRUE]
  ELSE [status |-> "raise", exc |-> "RuntimeError",
        msg |-> RetriesExhausted(reply.error_str), cache |-> c, external |-> TRUE]

\* classify_ticket on the tickets and the replies of this specification,
\* computed once
SystemClassified ==
  [x \in UploadSubjects \X SystemTexts
          \X { r.text : r \in { q \in SystemTopicReplies : q.ok } }
          \X { r.text : r \in { q \in SystemSentimentReplies : q.ok } } |->
     ClassifyResponses(x[1], x[2], x[3], x[4])]

\* lines 356-429 of sentiment_agent.py: classify_ticket(subj, bod) with its
\* two calls; cache is the cache it leaves and external tells whether it
\* sent a request to the service
ClassifyTicketCall(c, subj, bod, topic_reply, sentiment_reply) ==
  LET t == LLMCall(c, topic_prompt(subj, bod), topic_reply)
      s == LLMCall(t.cache, sentiment_prompt(subj, bod), sentiment_reply)
  IN IF t.status = "raise"
     THEN [status |-> "raise", exc |-> t.exc, msg |-> t.msg, cache |-> t.cache,
           external |-> t.external]
     ELSE IF s.status = "raise"
     THEN [status |-> "raise", exc |-> s.exc, msg |-> s.msg, cache |-> s.cache,
           external |-> t.external \/ s.external]
     ELSE [cache |-> s.cache, external |-> t.external \/ s.external]
            @@ SystemClassified[<<subj, bod, t.response, s.response>>]

\* lines 95-108 of simple_tavily_system.py: analyze_ticket(ticket_text)
AnalyzeTicket(sys, c, ticket_text, topic_reply, sentiment_reply) ==
  IF ~sys.sentiment_agent
  THEN [status |-> "raise", exc |-> "Exception",
        msg |-> "Sentiment agent not initialized", cache |-> c, external |-> FALSE]
  ELSE ClassifyTicketCall(c, "", ticket_text, topic_reply, sentiment_reply)

\* the fields of the TicketAnalysis (lines 102-108)
AnalysisOf(a) ==
  [topic_tags |-> a.topic_tags, sentiment |-> a.sentiment,
   priority |-> a.priority, confidence |-> a.confidence]

\* line 134: `async with self.tavily_rag` when tavily_rag is None
NoTavilyError == "'NoneType' object does not support the asynchronous context manager protocol"

\* line 553 of main.py: sentiment_agent.classify_ticket when the agent is None
NoAgentError == "'NoneType' object has no attribute 'classify_ticket'"

InitSystem ==
  /\ pc = "idle"
  /\ subject = ""
  /\ body = ""
  /\ ret = NoReturn
  /\ AgentIdle

systemFrame == <<subject, topic_response, sentiment_response, attempt, tickets,
                 results, callers>>

\* lines 82-83 of main.py: the startup event initializes the new system
Startup(claude, tavily) ==
  /\ op = "none"
  /\ ~system.initialized
  /\ system' = initialize(claude, tavily)
  /\ cache' = AgentCache(system, system', cache)
  /\ ret' = [fn |-> "initialize"]
  /\ UNCHANGED <<op, pc, body, log, analysis, systemFrame>>

\* lines 417-430 of main.py and 110-134 of simple_tavily_system.py: the
\* /api/interactive-agent handler up to the documentation search of
\* process_ticket, or to the return of process_ticket when the ticket is
\* escalated, or to the HTTP 500 of an error
InteractiveProcess(text, claude, tavily) ==
  /\ op = "none"
  /\ \E sys1 \in { EnsureInitialized(system, claude, tavily) } :
     \E c1 \in { AgentCache(system, sys1, cache) } :
        /\ system' = sys1
        /\ \E topic_reply \in RepliesFor(c1, topic_prompt("", text), SystemTopicReplies) :
           \E sentiment_reply \in
                RepliesFor(LLMCall(c1, topic_prompt("", text), topic_reply).cache,
                           sentiment_prompt("", text), SystemSentimentReplies) :
             \E a \in { AnalyzeTicket(sys1, c1, text, topic_reply, sentiment_reply) } :
                /\ cache' = a.cache
                /\ IF a.status = "raise"
                   THEN /\ ret' = [fn |-> "interactive", status |-> 500,
                                   process_ticket |-> "raised",
                                   detail |-> "Error processing ticket: " \o a.msg]
                        /\ UNCHANGED <<op, pc, body, analysis>>
                   ELSE IF ShouldUseTavily(a.topic_tags) /\ ~sys1.tavily_rag
                   THEN /\ ret' = [fn |-> "interactive", status |-> 500,
                                   process_ticket |-> "raised",
                                   detail |-> "Error processing ticket: " \o NoTavilyError]
                        /\ UNCHANGED <<op, pc, body, analysis>>
                   ELSE /\ op' = "interactive"
                        /\ pc' = IF ShouldUseTavily(a.topic_tags)
                                 THEN "searching" ELSE "routed"
                        /\ body' = text
                        /\ analysis' = AnalysisOf(a)
                        /\ ret' = [fn |-> "none"]
  /\ log' = <<>>
  /\ UNCHANGED systemFrame

\* lines 135-180 of simple_tavily_system.py and 430-458 of main.py: the rest
\* of process_ticket, then analyze_ticket on the same text and the response
\* of the handler.  external tells whether analyze_ticket sent a request to
\* the service, between whether another request changed the cache while
\* this one waited for the search
InteractiveAnalyze(realtime_confidence) ==
  /\ op = "interactive"
  /\ \E found \in (IF pc = "searching" THEN BOOLEAN ELSE {FALSE}) :
     \E topic_reply \in RepliesFor(cache, topic_prompt("", body), SystemTopicReplies) :
     \E sentiment_reply \in
          RepliesFor(LLMCall(cache, topic_prompt("", body), topic_reply).cache,
                     sentiment_prompt("", body), SystemSentimentReplies) :
     \E tavily_response \in { RouteResponse(analysis, found, realtime_confidence) } :
     \E a \in { AnalyzeTicket(system, cache, body, topic_reply, sentiment_reply) } :
          /\ cache' = a.cache
          /\ ret' = IF a.status = "raise"
                    THEN [fn |-> "interactive", status |-> 500,
                          process_ticket |-> "returned",
                          routing_tags |-> analysis.topic_tags,
                          external |-> a.external, between |-> log # <<>>,
                          detail |-> "Error processing ticket: " \o a.msg]
                    ELSE [fn |-> "interactive", status |-> 200,
                          process_ticket |-> "returned",
                          routing_tags |-> analysis.topic_tags,
                          external |-> a.external, between |-> log # <<>>,
                          internal_analysis |-> AnalysisOf(a),
                          final_response |-> tavily_response,
                          processing_method |->
                            IF tavily_response.is_tavily_used THEN "tavily" ELSE "routed"]
  /\ op' = "none"
  /\ pc' = "idle"
  /\ UNCHANGED <<body, log, analysis, system, systemFrame>>

\* the record the upload handler appends for a ticket that raised (lines 585-595)
UploadError(subj, text, called, msg) ==
  [fn |-> "upload", subject |-> subj, body |-> text, process_ticket |-> called,
   error |-> "Processing error: " \o msg]

\* lines 550-595 of main.py: one ticket of the /api/upload loop; the cache is
\* last touched before the search of process_ticket, so the ticket is taken
\* in one step.  It runs when no handler is running or while the
\* interactive handler waits for its search
UploadTicket(subj, text, claude, tavily, realtime_confidence) ==
  /\ op = "none" \/ pc = "searching"
  /\ IF ~system.sentiment_agent
     THEN /\ ret' = UploadError(subj, text, "not called", NoAgentError)
          /\ UNCHANGED <<cache, system>>
     ELSE
       \E topic_reply \in RepliesFor(cache, topic_prompt(subj, text), SystemTopicReplies) :
       \E sentiment_reply \in
            RepliesFor(LLMCall(cache, topic_prompt(subj, text), topic_reply).cache,
                       sentiment_prompt(subj, text), SystemSentimentReplies) :
       \E first \in { ClassifyTicketCall(cache, subj, text, topic_reply, sentiment_reply) } :
       \E sys1 \in { EnsureInitialized(system, claude, tavily) } :
       \E c1 \in { AgentCache(system, sys1, first.cache) } :
            IF first.status = "raise"
            THEN /\ ret' = UploadError(subj, text, "not called", first.msg)
                 /\ cache' = first.cache
                 /\ UNCHANGED system
            ELSE
              /\ system' = sys1
              /\ \E topic_again \in
                      RepliesFor(c1, topic_prompt("", text), SystemTopicReplies) :
                 \E sentiment_again \in
                      RepliesFor(LLMCall(c1, topic_prompt("", text), topic_again).cache,
                                 sentiment_prompt("", text), SystemSentimentReplies) :
                 \E a \in { AnalyzeTicket(sys1, c1, text, topic_again, sentiment_again) } :
                 \E found \in (IF a.status = "ok" /\ ShouldUseTavily(a.topic_tags)
                                THEN BOOLEAN ELSE {FALSE}) :
                      /\ cache' = a.cache
                      /\ ret' =
                           IF a.status = "raise"
                           THEN UploadError(subj, text, "raised", a.msg)
                           ELSE IF ShouldUseTavily(a.topic_tags) /\ ~sys1.tavily_rag
                           THEN UploadError(subj, text, "raised", NoTavilyError)
                           ELSE [fn |-> "upload", subject |-> subj, body |-> text,
                                 process_ticket |-> "returned",
                                 classification |-> AnalysisOf(first),
                                 tavily_response |->
                                   RouteResponse(AnalysisOf(a), found,
                                                 realtime_confidence)]
  /\ log' = IF op = "interactive" /\ cache' # cache THEN <<"upload">> ELSE log
  /\ UNCHANGED <<op, pc, body, analysis, systemFrame>>

NextSystem ==
  \/ \E claude \in Components, tavily \in Components : Startup(claude, tavily)
  \/ \E text \in SystemTexts, env \in Environments(system) :
       InteractiveProcess(text, env[1], env[2])
  \/ InteractiveAnalyze(80)
  \/ \E subj \in UploadSubjects, text \in SystemTexts, env \in Environments(system) :
       UploadTicket(subj, text, env[1], env[2], 80)

SpecSystem == InitSystem /\ [][NextSystem]_vars

----------------------------------------------------------------------------
(* Properties of the handlers (SpecSystem).                                *)

\* C26: in the /api/upload handler, for every ticket that is processed
\* without error, is_tavily_used of the reported tavily_response is true if
\* and only if at least one of the reported classification.topic_tags is in
\* {How-to, Product, Best practices, API/SDK, SSO}.
C26_UploadRoutingAgrees ==
  (ret.fn = "upload" /\ ret.process_ticket = "returned") =>
    (ret.tavily_response.is_tavily_used
       <=> \E i \in 1..Len(ret.classification.topic_tags) :
             ret.classification.topic_tags[i]
               \in {"How-to", "Product", "Best practices", "API/SDK", "SSO"})

\* C27: in the /api/interactive-agent handler, when process_ticket has
\* succeeded and no other request changed the cache in between, the
\* analyze_ticket that follows sends no request to the service and the
\* internal_analysis it reports has exactly the topic tags on which the
\* routing decision was made.
C27_SecondAnalysisFromCache ==
  (ret.fn = "interactive" /\ ret.process_ticket = "returned" /\ ~ret.between) =>
    /\ ret.status = 200
    /\ ~ret.external
    /\ ret.internal_analysis.topic_tags = ret.routing_tags

\* a handler has returned after calling process_ticket
ProcessTicketCalled(r) ==
  r.fn \in {"interactive", "upload"} /\ r.process_ticket # "not called"

----------------------------------------------------------------------------
(* SpecClassifyBatch: classify_batch, the batch method that takes and      *)
(* returns dictionaries, one iteration of its loop at a time.              *)

\* the longest ticket list handed to classify_batch
MaxDictBatch == 4

\* what classify_ticket does with the ticket tk: one of two results, or the
\* error of lines 368-369 after a call that failed or was rate-limited
DictBatchOutcomes(tk) ==
  BatchOutcomes(tk)
    \cup { ClassifyResponses(tk[1], tk[2], "{\"topics\": [\"Product\"]}",
                             "{\"sentiment\": \"Neutral\"}"),
           [status |-> "raise", exc |-> "RuntimeError",
            msg |-> "API call failed: "
                      \o RetriesExhausted("Error code: 429 - rate_limit_exceeded")] }

InitClassifyBatch == InitBatch

\* lines 584-587: classify_batch(tickets) is called with n tickets
ClassifyBatchCall(n) ==
  /\ pc = "idle"
  /\ ret = NoReturn
  /\ op' = "classify_batch"
  /\ pc' = "running"
  /\ tickets' = [k \in 1..n |-> TicketNo(k)]
  /\ results' = <<>>
  /\ callers' = <<BatchFrame("for_ticket", 0, tickets', 0)>>
  /\ UNCHANGED <<log, ret, batchFrame>>

\* variant that replaces the failed ticket by a fallback record and goes on
ClassifyBatchExcept_fallback(f, outcome) ==
  /\ results' = Append(results, [ticket |-> f.batch[f.k + 1],
                                 classification |-> BatchFallback(outcome.msg)])
  /\ callers' = <<[f EXCEPT !.k = f.k + 1]>>
  /\ UNCHANGED <<op, pc, ret>>

\* lines 604-606: the except clause prints and re-raises; the call ends and
\* its results list is dropped with its frame
ClassifyBatchExcept(f, outcome) ==
  /\ ret' = [fn |-> "classify_batch", status |-> "raise", exc |-> outcome.exc,
             msg |-> outcome.msg]
  /\ results' = <<>>
  /\ callers' = <<BatchFrame("idle", 0, <<>>, 0)>>
  /\ op' = "none"
  /\ pc' = "idle"

\* lines 587-606: the next ticket is classified; status tells whether
\* classify_ticket returns or raises
ClassifyBatchTicket(status) ==
  /\ op = "classify_batch"
  /\ pc = "running"
  /\ callers[1].k < Len(callers[1].batch)
  /\ LET f  == callers[1]
         tk == f.batch[f.k + 1]
     IN \E outcome \in DictBatchOutcomes(tk) :
          /\ outcome.status = status
          /\ log' = Append(log, [ev |-> "classify_ticket", ticket |-> tk,
                                 status |-> status,
                                 msg |-> IF status = "ok" THEN "" ELSE outcome.msg])
          /\ IF status = "ok"
             THEN /\ results' = Append(results, [ticket |-> tk,
                                                 classification |-> ResultOf(outcome)])
                  /\ callers' = <<[f EXCEPT !.k = f.k + 1]>>
                  /\ UNCHANGED <<op, pc, ret>>
             ELSE ClassifyBatchExcept(f, outcome)
  /\ UNCHANGED <<tickets, batchFrame>>

\* line 608: return results after the last ticket
ClassifyBatchReturn ==
  /\ op = "classify_batch"
  /\ pc = "running"
  /\ callers[1].k = Len(callers[1].batch)
  /\ ret' = [fn |-> "classify_batch", status |-> "ok", results |-> results]
  /\ callers' = <<BatchFrame("idle", 0, <<>>, 0)>>
  /\ op' = "none"
  /\ pc' = "idle"
  /\ UNCHANGED <<tickets, results, log, batchFrame>>

NextClassifyBatch ==
  \/ \E n \in 0..MaxDictBatch : ClassifyBatchCall(n)
  \/ ClassifyBatchTicket("ok")
  \/ ClassifyBatchTicket("raise")
  \/ ClassifyBatchReturn

SpecClassifyBatch == InitClassifyBatch /\ [][NextClassifyBatch]_vars

(* Properties of classify_batch (SpecClassifyBatch).                       *)

\* C29: classify_batch stops at the first ticket whose classification raises
\* and re-raises that error: the tickets are classified in order, no ticket
\* is classified after one that raised, and a call in which a ticket raised
\* ends with that error and returns no results, those built for the earlier
\* tickets included; a call in which none raised returns one result per
\* ticket.
C29_BatchStopsAtFirstError ==
  (op = "classify_batch" \/ ret.fn = "classify_batch") =>
    /\ Len(log) <= Len(tickets)
    /\ \A k \in 1..Len(log) :
         /\ log[k].ticket = tickets[k]
         /\ k < Len(log) => log[k].status = "ok"
    /\ (ret.fn = "classify_batch" /\ Len(log) > 0 /\ log[Len(log)].status = "raise") =>
         /\ ret.status = "raise"
         /\ ret.msg = log[Len(log)].msg
         /\ "results" \notin DOMAIN ret
    /\ (ret.fn = "classify_batch" /\ \A k \in 1..Len(log) : log[k].status = "ok") =>
         /\ ret.status = "ok"
         /\ Len(ret.results) = Len(tickets)
         /\ \A k \in 1..Len(tickets) : ret.results[k].ticket = tickets[k]
    /\ (op = "classify_batch" /\ Len(log) > 0) => log[Len(log)].status = "ok"

\* the third of four tickets raised after two results had been built: the
\* call raised its error and the fourth ticket was not classified
C29_Witness ==
  /\ ret.fn = "classify_batch"
  /\ ret.status = "raise"
  /\ Len(tickets) = 4
  /\ Len(log) = 3
  /\ log[1].status = "ok" /\ log[2].status = "ok" /\ log[3].status = "raise"
  /\ ret.msg = log[3].msg

----------------------------------------------------------------------------
(* SpecForce: _calculate_priority_score on texts built around the phrases  *)
(* that the urgency table and the severity table both score 3.             *)

\* the phrases with score 3 in urgency_indicators (lines 100-102) and in
\* severity_indicators (lines 135-136)
ForcingPhrases == {"down", "broken", "failed", "crash", "not working", "unavailable"}

\* texts around the phrase w: alone, inside longer words, capitalised, among
\* phrases of the lowest scores and among phrases of other tables
ForceBodies(w) ==
  { w,
    "the " \o w \o "load",
    "un" \o w \o "ed",
    capitalize(w),
    "just me wondering about " \o w,
    w \o " gdpr everyone asap" }

ForceTickets ==
  UNION { { <<subj, bod>> : subj \in {"", "Login", "info"}, bod \in ForceBodies(w) } :
          w \in ForcingPhrases \cup {"help", "up", "work"} }
    \cup { <<"not", "working">>, <<"it is not", "working at all">>, <<"un", "available">> }

InitForce ==
  /\ pc = "start"
  /\ \E tk \in ForceTickets : subject = tk[1] /\ body = tk[2]
  /\ ret = NoReturn
  /\ AgentIdle

NextForce == CalculatePriorityScore

SpecForce == InitForce /\ [][NextForce]_vars

(* Properties of the scorer on the forcing phrases (SpecForce).            *)

\* sub occurs in s as a run of consecutive characters
Occurs(sub, s) ==
  \E i \in 1..(Len(s) - Len(sub) + 1) : SubSeq(s, i, i + Len(sub) - 1) = sub

====
